---- MODULE Spec2Model ----
(***************************************************************************)
(* realmd: the join / leave / deconfigure / change-login-policy handlers   *)
(* of a Kerberos realm object (service/realm-kerberos.c), their completion *)
(* callbacks and the daemon-wide exclusive lock they funnel through.       *)
(***************************************************************************)
EXTENDS Integers, Sequences, FiniteSets, TLC

(* ----------------------------- bounds ---------------------------------- *)

\* Number of D-Bus method invocations issued during one run of the daemon.
MaxInvocations == 2

Ids == 1..MaxInvocations

\* "No invocation": the value of the lock when it is free.
NoInvocation == 0

(* ------------------------- errors and replies -------------------------- *)

GError(domain, code, message) == [domain |-> domain, code |-> code, message |-> message]

\* g_dbus_method_invocation_return_value (invocation, g_variant_new ("()"))
EmptyReply == [domain |-> "", code |-> "OK", message |-> "()"]

Cancelled == GError("G_IO_ERROR", "G_IO_ERROR_CANCELLED", "Operation was cancelled")

\* What a back-end's finish call can leave in *error: nothing (NULL), an error
\* of the public REALM_ERROR or G_DBUS_ERROR domains, a cancellation, or an
\* error of a library-internal domain.
NoError == [domain |-> "", code |-> "NULL", message |-> ""]

BackendErrors ==
    { GError("REALM_ERROR", "REALM_ERROR_FAILED", "backend"),
      GError("G_DBUS_ERROR", "G_DBUS_ERROR_NOT_SUPPORTED", "backend"),
      Cancelled,
      GError("REALM_KRB5_ERROR", "KRB5_INTERNAL", "backend") }

BackendResults == {NoError} \cup BackendErrors

(* ------------------------------ back-ends ------------------------------ *)

CredentialTypes == {"automatic", "ccache", "secret", "password"}

\* A supported-credentials array of a back-end: a NULL pointer, or the types
\* listed before the terminating entry of type 0.
NullList == [null |-> TRUE, types |-> << >>]
List(types) == [null |-> FALSE, types |-> types]

\* The realm objects of the daemon. Each is described by the capabilities of
\* its class: whether it implements the membership interface, the entry points
\* and supported-credential arrays of that interface's vtable
\* (RealmKerberosMembershipIface), and the logins entry points of
\* RealmKerberosClass. An entry point is TRUE when the pointer is set.
Samba ==
    [name |-> "samba", membership |-> TRUE,
     join_async |-> TRUE, join_finish |-> TRUE,
     leave_async |-> TRUE, leave_finish |-> TRUE,
     join_creds_supported |-> List(<<"password", "ccache">>),
     leave_creds_supported |-> List(<<"password", "automatic">>),
     logins_async |-> TRUE, logins_finish |-> TRUE]

\* async entry points without their finish counterparts
NoFinish ==
    [name |-> "nofinish", membership |-> TRUE,
     join_async |-> TRUE, join_finish |-> FALSE,
     leave_async |-> TRUE, leave_finish |-> FALSE,
     join_creds_supported |-> List(<<"automatic", "secret">>),
     leave_creds_supported |-> List(<<"automatic">>),
     logins_async |-> TRUE, logins_finish |-> FALSE]

\* a membership interface that can neither join nor leave, declares no
\* credentials, and a class that cannot change logins
Kerberos ==
    [name |-> "kerberos", membership |-> TRUE,
     join_async |-> FALSE, join_finish |-> FALSE,
     leave_async |-> FALSE, leave_finish |-> FALSE,
     join_creds_supported |-> NullList,
     leave_creds_supported |-> NullList,
     logins_async |-> FALSE, logins_finish |-> FALSE]

\* no membership interface at all
Plain ==
    [name |-> "plain", membership |-> FALSE,
     join_async |-> FALSE, join_finish |-> FALSE,
     leave_async |-> FALSE, leave_finish |-> FALSE,
     join_creds_supported |-> NullList,
     leave_creds_supported |-> NullList,
     logins_async |-> TRUE, logins_finish |-> TRUE]

Realms == {Samba, NoFinish, Kerberos, Plain}

\* The realm object a pointer (held as the object's name) refers to.
Object(pointer) == CHOOSE self \in Realms : self.name = pointer

\* The vtable of the realm object's membership interface; its membership field
\* is FALSE when the macro yields NULL.
REALM_KERBEROS_MEMBERSHIP_GET_IFACE(self) == self

REALM_KERBEROS_GET_CLASS(self) == self

(* ------------------------------- inputs -------------------------------- *)

\* Credential wire values (kind, owner, payload): the kind tag and whether the
\* payload has the shape the kind requires.
CredentialWires ==
    [kind : CredentialTypes \cup {"bogus"}, wellformed : {TRUE}]
        \cup {[kind |-> "password", wellformed |-> FALSE]}

\* handle_deconfigure: g_variant_new ("(ss@v)", "automatic", "none", "")
DeconfigureCredential == [kind |-> "automatic", wellformed |-> TRUE]

\* realm_credential_parse: a credential of the wire value's kind, or an
\* InvalidArgument error for an unknown kind or a malformed payload.
realm_credential_parse(credential) ==
    IF credential.kind \in CredentialTypes /\ credential.wellformed
    THEN [cred |-> [type |-> credential.kind], error |-> NoError]
    ELSE [cred |-> [type |-> "NULL"],
          error |-> GError("G_DBUS_ERROR", "G_DBUS_ERROR_INVALID_ARGS",
                           "Invalid credential")]

\* Host names as gethostname() reports them: the return code and the name.
HostNames ==
    { [ret |-> -1, name |-> << >>],
      [ret |-> 0, name |-> <<"h","o","s","t","1">>],
      [ret |-> 0, name |-> <<"L","o","c","a","l","H","o","s","t">>],
      [ret |-> 0, name |-> <<"l","o","c","a","l","h","o","s","t",".","d">>] }

\* More host names around the two comparisons of handle_join: the exact
\* names, a longer name without the dot, a shorter one, mixed case.
HostNamesNearLocalhost ==
    HostNames \cup
    { [ret |-> 0, name |-> <<"l","o","c","a","l","h","o","s","t">>],
      [ret |-> 0, name |-> <<"l","o","c","a","l","h","o","s","t",".">>],
      [ret |-> 0, name |-> <<"L","O","C","A","L","H","O","S","T",".","D">>],
      [ret |-> 0, name |-> <<"l","o","c","a","l","h","o","s","t","x">>],
      [ret |-> 0, name |-> <<"l","o","c","a","l","h","o","s">>],
      [ret |-> 0, name |-> <<"x","l","o","c","a","l","h","o","s","t">>] }

\* One host name that handle_join rejects and one that it accepts.
HostNameSamples ==
    { [ret |-> 0, name |-> <<"h","o","s","t","1">>],
      [ret |-> 0, name |-> <<"L","o","c","a","l","H","o","s","t">>] }

\* Options of a call: whether a computer-ou entry and a true assume-packages
\* entry are present.
Options == [computer_ou : BOOLEAN, assume_packages : {FALSE}]

\* A call with neither entry.
NoOptions == [computer_ou |-> FALSE, assume_packages |-> FALSE]

\* Login policy tokens (REALM_DBUS_LOGIN_POLICY_*).
REALM_DBUS_LOGIN_POLICY_ANY == "any"
REALM_DBUS_LOGIN_POLICY_REALM == "realm"
REALM_DBUS_LOGIN_POLICY_PERMITTED == "permitted"
REALM_DBUS_LOGIN_POLICY_DENY == "deny"

\* A login_policy string is a sequence of symbols: a word stands for its
\* letters, a delimiter for itself.
Delimiters == {",", " ", "\t"}

\* One string for each way handle_change_login_policy treats its argument: a
\* single policy, an unknown token, two policies.
PolicySamples ==
    { <<"permitted">>,
      <<"bogus">>,
      <<"any", ",", "deny">> }

\* The strings used where the stored login policy is followed: no policy, each
\* single policy, and strings that are rejected.
LoginsPolicySamples ==
    { << >>,
      <<"any">>, <<"realm">>, <<"permitted">>, <<"deny">>,
      <<"bogus">>,
      <<"any", ",", "deny">>,
      <<"any", ",", " ", "deny">> }

(* --------------------------- string helpers ---------------------------- *)

UpperCase == <<"A","B","C","D","E","F","G","H","I","J","K","L","M",
               "N","O","P","Q","R","S","T","U","V","W","X","Y","Z">>
LowerCase == <<"a","b","c","d","e","f","g","h","i","j","k","l","m",
               "n","o","p","q","r","s","t","u","v","w","x","y","z">>

g_ascii_tolower(c) ==
    IF \E k \in DOMAIN UpperCase : UpperCase[k] = c
    THEN LowerCase[CHOOSE k \in DOMAIN UpperCase : UpperCase[k] = c]
    ELSE c

\* g_ascii_strcasecmp (s1, s2) == 0
g_ascii_strcasecmp_eq(s1, s2) ==
    /\ Len(s1) = Len(s2)
    /\ \A k \in 1..Len(s1) : g_ascii_tolower(s1[k]) = g_ascii_tolower(s2[k])

\* g_ascii_strncasecmp (s1, s2, n) == 0: the first n characters agree, a
\* string that ends earlier agreeing only with one that ends at the same place.
g_ascii_strncasecmp_eq(s1, s2, n) ==
    LET m1 == IF Len(s1) < n THEN Len(s1) ELSE n
        m2 == IF Len(s2) < n THEN Len(s2) ELSE n
    IN /\ m1 = m2
       /\ \A k \in 1..m1 : g_ascii_tolower(s1[k]) = g_ascii_tolower(s2[k])

\* handle_join: the host name check.
HostNameNotSet(hostname) ==
    \/ hostname.ret < 0
    \/ g_ascii_strcasecmp_eq(hostname.name, <<"l","o","c","a","l","h","o","s","t">>)
    \/ g_ascii_strncasecmp_eq(hostname.name,
                              <<"l","o","c","a","l","h","o","s","t",".">>,
                              Len(<<"l","o","c","a","l","h","o","s","t",".">>))

\* g_strsplit_set (string, ", \t", -1): an empty string gives no token; any
\* other string gives one token more than it has delimiters, empty tokens
\* included.
RECURSIVE SplitFrom(_, _, _)
SplitFrom(string, token, k) ==
    IF k > Len(string) THEN <<token>>
    ELSE IF string[k] \in Delimiters
         THEN <<token>> \o SplitFrom(string, << >>, k + 1)
         ELSE SplitFrom(string, Append(token, string[k]), k + 1)

g_strsplit_set(string) ==
    IF string = << >> THEN << >> ELSE SplitFrom(string, << >>, 1)

(* ------------------------- the host keytab ----------------------------- *)

\* The longest keytab considered.
MaxKeytab == 3

\* The realms of the principals in the keytab and of the realm flushed; realm
\* names hold no '@', so the realm of the principal parsed from "user@<realm>"
\* is the realm name itself.
KeytabRealms == {"EXAMPLE.COM", "OTHER.ORG"}

\* entry.principal of the keytab entries.
KeytabPrincipals == [name : {"host", "cifs"}, realm : KeytabRealms]

Keytabs == UNION {[1..n -> KeytabPrincipals] : n \in 0..MaxKeytab}

\* What a krb5 call returns: success or an error code.
KeytabCodes == {"0", "error"}

\* The keytab with entries on disk and no flush started.  before is the keytab
\* the flush found; restarts counts the krb5_kt_start_seq_get calls made after
\* a removal; read_error records that the scan ended on an error of a read
\* and not at the end of the keytab.
NewKeytab(entries) ==
    [pc |-> "none", realm_name |-> "NULL", entries |-> entries,
     before |-> entries, cursor |-> 0, cursor_valid |-> FALSE, ret |-> "none",
     restarts |-> 0, read_error |-> FALSE]

krb5_realm_compare(princ1, princ2) == princ1.realm = princ2.realm

\* The entries without the first one equal to entry.
krb5_kt_remove_entry(entries, entry) ==
    LET found == {k \in DOMAIN entries : entries[k] = entry}
    IN IF found = {} THEN entries
       ELSE LET first == CHOOSE k \in found : \A l \in found : k <= l
            IN [k \in 1..(Len(entries) - 1) |->
                   IF k < first THEN entries[k] ELSE entries[k + 1]]

KeytabReturn(kt, ret) == [kt EXCEPT !.pc = "done", !.ret = ret]

\* flush_keytab_entries up to its loop: only KRB5_KT_END and ENOENT of the
\* first krb5_kt_start_seq_get are looked at; after any other error the cursor
\* was never set.
flush_keytab_entries(kt, code) ==
    IF code \in {"KRB5_KT_END", "ENOENT"}
    THEN KeytabReturn(kt, "TRUE")
    ELSE [kt EXCEPT !.pc = "scan", !.cursor = 0, !.cursor_valid = (code = "0")]

\* One test of the loop condition of flush_keytab_entries and, when it holds,
\* one pass through the loop body; the arguments are what the krb5 calls
\* return.  Any failure of krb5_kt_next_entry ends the loop as the end of the
\* keytab does.
flush_keytab_entries_loop(kt, next_entry, end_seq_get, remove_entry, start_seq_get, free_entry) ==
    LET realm_princ == [name |-> "user", realm |-> kt.realm_name]
        at_end == kt.cursor >= Len(kt.entries)
    IN IF ~kt.cursor_valid \/ at_end \/ next_entry # "0"
       THEN [KeytabReturn(kt, IF end_seq_get = "0" THEN "TRUE" ELSE "FALSE")
                EXCEPT !.read_error = ~kt.cursor_valid \/ ~at_end]
       ELSE LET entry == kt.entries[kt.cursor + 1]
                read == [kt EXCEPT !.cursor = @ + 1]
            IN IF krb5_realm_compare(realm_princ, entry)
               THEN IF end_seq_get # "0" THEN KeytabReturn(read, "FALSE")
                    ELSE IF remove_entry # "0" THEN KeytabReturn(read, "FALSE")
                    ELSE LET removed ==
                                 [read EXCEPT !.entries =
                                     krb5_kt_remove_entry(@, entry)]
                         IN IF start_seq_get # "0"
                            THEN KeytabReturn(removed, "FALSE")
                            ELSE LET restarted ==
                                         [removed EXCEPT !.cursor = 0,
                                                         !.restarts = @ + 1]
                                 IN IF free_entry # "0"
                                    THEN KeytabReturn(restarted, "FALSE")
                                    ELSE restarted
               ELSE IF free_entry # "0" THEN KeytabReturn(read, "FALSE")
                    ELSE read

\* realm_kerberos_flush_keytab up to the loop of flush_keytab_entries.
realm_kerberos_flush_keytab(kt, realm_name, init_context, kt_default, parse_name, start_seq_get) ==
    LET called == [kt EXCEPT !.realm_name = realm_name]
    IN IF init_context # "0" THEN KeytabReturn(called, "FALSE")
       ELSE IF kt_default # "0" THEN KeytabReturn(called, "FALSE")
       ELSE IF parse_name # "0" THEN KeytabReturn(called, "FALSE")
       ELSE flush_keytab_entries(called, start_seq_get)

(* ------------------------------- state --------------------------------- *)

VARIABLES
    invocations,         \* per method invocation: its progress and what it did
    current_invocation,  \* the daemon lock: the invocation holding it, or none
    install_mode,        \* realm_daemon_is_install_mode ()
    crashed,             \* the daemon process died on an invalid memory access
    realm_iface,         \* per realm object: the properties of its RealmDbusRealm
                         \* skeleton (self->pv->realm_iface)
    kinit,               \* the ticket acquisition: its GSimpleAsyncResult, its
                         \* KinitClosure and the cache file on disk
    discoveries,         \* the Discover calls issued so far, in order
    registry,            \* the realm objects the Samba provider has registered,
                         \* in the order of their creation
    keytab,              \* the default host keytab and the progress of the
                         \* flush running over it
    call                 \* the arguments of the call made by the last step, if
                         \* that step was a call whose arguments are recorded

vars == <<invocations, current_invocation, install_mode, crashed, realm_iface, kinit,
          discoveries, registry, keytab, call>>

NoCall == [what |-> "none"]

\* A MethodClosure that is not allocated, and one holding its realm object and
\* its credential.
NoClosure == [allocated |-> FALSE, self |-> "NULL", cred |-> "NULL"]
Closure(self, cred) == [allocated |-> TRUE, self |-> self.name, cred |-> cred]

\* An invocation that has not been issued yet.
\*   pc           "idle", "dispatched" (a back-end call is in flight),
\*                "flushing" (the name-cache flush is in flight), "done"
\*   exit         the return statement through which its handler returned
\*   replies      the replies sent to the caller, in order
\*   diag         the messages sent to the diagnostics sink, in order
\*   acquired     successful realm_invocation_lock_daemon calls
\*   unlocks      realm_invocation_unlock_daemon calls
\*   stray_unlocks  unlock calls made while it did not hold the lock
\*   late_replies   replies sent after it had already called unlock
\*   async_calls  calls of a back-end async entry point
\*   finish_calls calls of a back-end finish entry point
\*   cancelled    its cancellation token has fired
\*   creds        live references to credentials it parsed
\*   closure      its MethodClosure
\*   policy       the policy argument of its logins_async call, if it made one
NewInvocation ==
    [pc |-> "idle", method |-> "", exit |-> "", replies |-> << >>, diag |-> << >>,
     acquired |-> 0, unlocks |-> 0, stray_unlocks |-> 0, late_replies |-> 0,
     async_calls |-> 0, finish_calls |-> 0,
     cancelled |-> FALSE, creds |-> 0, closure |-> NoClosure, policy |-> "none"]

\* The part of the daemon a handler or callback of invocation id works on.
Frame(id) ==
    [id |-> id, v |-> invocations[id], lock |-> current_invocation, crashed |-> FALSE]

(* -------------------------- the daemon lock ---------------------------- *)

\* realm_invocation_lock_daemon: try_lock of the process-wide lock.
realm_invocation_lock_daemon(d) ==
    IF d.lock = NoInvocation
    THEN [ok |-> TRUE, d |-> [d EXCEPT !.lock = d.id, !.v.acquired = @ + 1]]
    ELSE [ok |-> FALSE, d |-> d]

\* realm_invocation_unlock_daemon: unlock of the process-wide lock.
realm_invocation_unlock_daemon(d) ==
    [d EXCEPT !.lock = NoInvocation,
              !.v.unlocks = @ + 1,
              !.v.stray_unlocks = @ + (IF d.lock = d.id THEN 0 ELSE 1)]

(* ----------------------- replies and diagnostics ----------------------- *)

\* g_dbus_method_invocation_return_value / _return_error / _return_gerror
Return(d, reply) ==
    [d EXCEPT !.v.replies = Append(@, reply),
              !.v.late_replies = @ + (IF d.v.unlocks > 0 THEN 1 ELSE 0)]

\* realm_diagnostics_info / realm_diagnostics_error
Diagnostics(d, level, label) == [d EXCEPT !.v.diag = Append(@, <<level, label>>)]

\* The handler (or the last callback) of the invocation returned.
Exit(d, how) == [d EXCEPT !.v.exit = how, !.v.pc = "done"]
Finish(d) == [d EXCEPT !.v.pc = "done"]
Crash(d) == [d EXCEPT !.crashed = TRUE, !.v.exit = "crash", !.v.pc = "done"]

method_closure_new(d, self) == [d EXCEPT !.v.closure = Closure(self, "NULL")]

realm_credential_unref(d) == [d EXCEPT !.v.creds = @ - 1]

method_closure_free(d) ==
    LET d1 == IF d.v.closure.cred # "NULL" THEN realm_credential_unref(d) ELSE d
    IN [d1 EXCEPT !.v.closure = NoClosure]

ReplyOf(d, error, failed_label, failed_reply) ==
    IF error.domain \in {"REALM_ERROR", "G_DBUS_ERROR"}
    THEN Return(Diagnostics(d, "error", "NULL"), error)
    ELSE IF error.domain = "G_IO_ERROR" /\ error.code = "G_IO_ERROR_CANCELLED"
    THEN Return(Diagnostics(d, "error", "Cancelled"),
                GError("REALM_ERROR", "REALM_ERROR_CANCELLED", "Operation was cancelled."))
    ELSE Return(Diagnostics(d, "error", failed_label), failed_reply)

enroll_method_reply(d, error) ==
    realm_invocation_unlock_daemon(
        IF error = NoError
        THEN Return(Diagnostics(d, "info", "Successfully enrolled machine in realm"),
                    EmptyReply)
        ELSE ReplyOf(d, error, "Failed to enroll machine in realm",
                     GError("REALM_ERROR", "REALM_ERROR_FAILED",
                            "Failed to enroll machine in realm. See diagnostics.")))

unenroll_method_reply(d, error) ==
    realm_invocation_unlock_daemon(
        IF error = NoError
        THEN Return(Diagnostics(d, "info", "Successfully unenrolled machine from realm"),
                    EmptyReply)
        ELSE ReplyOf(d, error, "Failed to unenroll machine from realm",
                     GError("REALM_ERROR", "REALM_ERROR_FAILED",
                            "Failed to unenroll machine from domain. See diagnostics.")))

(* --------------------------- join and leave ---------------------------- *)

\* is_credential_supported: the message of the NotSupported error.
UnsupportedMessage(type, join) ==
    CASE type = "automatic" ->
           IF join THEN "Joining this realm without credentials is not supported"
                   ELSE "Leaving this realm without credentials is not supported"
      [] type = "ccache" ->
           IF join THEN "Joining this realm using a credential cache is not supported"
                   ELSE "Leaving this realm using a credential cache is not supported"
      [] type = "secret" ->
           IF join THEN "Joining this realm using a secret is not supported"
                   ELSE "Unenrolling this realm using a secret is not supported"
      [] type = "password" ->
           IF join THEN "Enrolling this realm using a password is not supported"
                   ELSE "Unenrolling this realm using a password is not supported"

NotSupported(cred, join) ==
    [ok |-> FALSE,
     error |-> GError("G_DBUS_ERROR", "G_DBUS_ERROR_NOT_SUPPORTED",
                      UnsupportedMessage(cred.type, join))]

Supported == [ok |-> TRUE, error |-> NoError]

\* The support check never returned: the process died reading through NULL.
Segfault == [ok |-> FALSE, error |-> GError("SIGSEGV", "", "")]

\* (mutation) the join list is consulted for both directions
is_credential_supported_JoinListOnly(iface, cred, join) ==
    LET supported == iface.join_creds_supported
        found == /\ ~supported.null
                 /\ \E k \in 1..Len(supported.types) : cred.type = supported.types[k]
    IN IF found THEN Supported ELSE NotSupported(cred, join)

is_credential_supported(iface, cred, join) ==
    LET supported == IF join THEN iface.join_creds_supported
                             ELSE iface.leave_creds_supported
        found == /\ ~supported.null
                 /\ \E k \in 1..Len(supported.types) : cred.type = supported.types[k]
    IN IF found THEN Supported ELSE NotSupported(cred, join)

\* realm_credential_build_supported: the advertised list, one entry for each
\* entry of the array; an absent array advertises nothing.
realm_credential_build_supported(supported) ==
    IF supported.null THEN << >> ELSE supported.types

\* (mutation) the join array is advertised for both directions
realm_kerberos_constructed_JoinForBoth(self) ==
    LET iface == REALM_KERBEROS_MEMBERSHIP_GET_IFACE(self)
    IN [supported_join_credentials |->
            realm_credential_build_supported(iface.join_creds_supported),
        supported_leave_credentials |->
            realm_credential_build_supported(iface.join_creds_supported)]

\* realm_kerberos_constructed: the SupportedJoinCredentials and
\* SupportedLeaveCredentials properties of a realm object that implements the
\* membership interface.
realm_kerberos_constructed(self) ==
    LET iface == REALM_KERBEROS_MEMBERSHIP_GET_IFACE(self)
    IN [supported_join_credentials |->
            realm_credential_build_supported(iface.join_creds_supported),
        supported_leave_credentials |->
            realm_credential_build_supported(iface.leave_creds_supported)]

\* The results of the support check. A realm object without the membership
\* interface has a NULL iface, which is_credential_supported dereferences:
\* the daemon dies, or the check goes either way on what it read.
SupportCheck(iface, cred, join) ==
    IF iface.membership
    THEN {is_credential_supported(iface, cred, join)}
    ELSE {Segfault, Supported, NotSupported(cred, join)}

\* The values the finish entry point can be read as after the lock is taken.
FinishPresent(iface, join) ==
    IF iface.membership
    THEN {IF join THEN iface.join_finish ELSE iface.leave_finish}
    ELSE BOOLEAN

BusyReply == GError("REALM_ERROR", "REALM_ERROR_BUSY", "Already running another action")

\* join_or_leave, once the lock is held: the closure, the check of the finish
\* entry point and the call of the async entry point.
Dispatch(d, self, join) ==
    LET iface == REALM_KERBEROS_MEMBERSHIP_GET_IFACE(self)
        method == [method_closure_new(d, self) EXCEPT !.v.closure.cred = "cred"]
    IN { IF ~present THEN Exit(method, "finish_missing")
         ELSE IF ~iface.membership THEN Crash(method)
         ELSE [method EXCEPT !.v.exit = "dispatched",
                             !.v.pc = "dispatched",
                             !.v.async_calls = @ + 1]
         : present \in FinishPresent(iface, join) }

\* (mutation) the result of the lock acquisition is not looked at
LockAndDispatch_IgnoreBusy(d, self, cred, join) ==
    Dispatch(realm_invocation_lock_daemon(d).d, self, join)

\* (mutation) the Busy path releases the lock it did not get
LockAndDispatch_UnlockOnBusy(d, self, cred, join) ==
    LET locked == realm_invocation_lock_daemon(d)
    IN IF ~locked.ok
       THEN { Exit(realm_invocation_unlock_daemon(Return(d, BusyReply)), "busy") }
       ELSE Dispatch(locked.d, self, join)

\* join_or_leave, from the lock acquisition on.
LockAndDispatch(d, self, cred, join) ==
    LET locked == realm_invocation_lock_daemon(d)
    IN IF ~locked.ok
       THEN { Exit(Return(d, BusyReply), "busy") }
       ELSE Dispatch(locked.d, self, join)

join_or_leave(d, self, credential, flags, options, join) ==
    LET iface == REALM_KERBEROS_MEMBERSHIP_GET_IFACE(self)
        parsed == realm_credential_parse(credential)
        d1 == [d EXCEPT !.v.creds = @ + 1]
    IN IF \/ (join /\ iface.membership /\ ~iface.join_async)
          \/ (~join /\ iface.membership /\ ~iface.leave_async)
       THEN { Exit(Return(d, GError("G_DBUS_ERROR", "G_DBUS_ERROR_NOT_SUPPORTED",
                                    IF join THEN "Joining this realm is not supported"
                                            ELSE "Leaving this realm is not supported")),
                   "capability") }
       ELSE IF parsed.error # NoError
       THEN { Exit(Return(d, parsed.error), "parse") }
       ELSE UNION {
              IF check = Segfault THEN { Crash(d1) }
              ELSE IF ~check.ok
              THEN { Exit(realm_credential_unref(Return(d1, check.error)), "support") }
              ELSE LockAndDispatch(d1, self, parsed.cred, join)
              : check \in SupportCheck(iface, parsed.cred, join) }

\* (mutation) the host name is checked after the back-end's join capability
handle_join_CapabilityFirst(d, self, hostname, credentials, options) ==
    LET iface == REALM_KERBEROS_MEMBERSHIP_GET_IFACE(self)
    IN IF HostNameNotSet(hostname) /\ ~(iface.membership /\ ~iface.join_async)
       THEN { Exit(Return(d, GError("REALM_ERROR", "REALM_ERROR_FAILED",
                                    "This computer's host name is not set correctly.")),
                   "hostname") }
       ELSE join_or_leave(d, self, credentials, {}, options, TRUE)

\* (mutation) the host name is compared case-sensitively
handle_join_CaseSensitive(d, self, hostname, credentials, options) ==
    LET flags == IF options.assume_packages THEN {"REALM_KERBEROS_ASSUME_PACKAGES"} ELSE {}
    IN IF \/ hostname.ret < 0
          \/ hostname.name = <<"l","o","c","a","l","h","o","s","t">>
          \/ /\ Len(hostname.name) >= 10
             /\ SubSeq(hostname.name, 1, 10) = <<"l","o","c","a","l","h","o","s","t",".">>
       THEN { Exit(Return(d, GError("REALM_ERROR", "REALM_ERROR_FAILED",
                                    "This computer's host name is not set correctly.")),
                   "hostname") }
       ELSE join_or_leave(d, self, credentials, flags, options, TRUE)

handle_join(d, self, hostname, credentials, options) ==
    LET flags == IF options.assume_packages THEN {"REALM_KERBEROS_ASSUME_PACKAGES"} ELSE {}
    IN IF HostNameNotSet(hostname)
       THEN { Exit(Return(d, GError("REALM_ERROR", "REALM_ERROR_FAILED",
                                    "This computer's host name is not set correctly.")),
                   "hostname") }
       ELSE join_or_leave(d, self, credentials, flags, options, TRUE)

\* (mutation) the computer-ou option is looked at after the capability check
handle_leave_CapabilityFirst(d, self, credentials, options) ==
    LET iface == REALM_KERBEROS_MEMBERSHIP_GET_IFACE(self)
    IN IF options.computer_ou /\ ~(iface.membership /\ ~iface.leave_async)
       THEN { Exit(Return(d, GError("G_DBUS_ERROR", "G_DBUS_ERROR_INVALID_ARGS",
                  "The computer-ou argument is not supported when leaving a domain.")),
                   "computer_ou") }
       ELSE join_or_leave(d, self, credentials, {}, options, FALSE)

handle_leave(d, self, credentials, options) ==
    IF options.computer_ou
    THEN { Exit(Return(d, GError("G_DBUS_ERROR", "G_DBUS_ERROR_INVALID_ARGS",
               "The computer-ou argument is not supported when leaving a domain.")),
                "computer_ou") }
    ELSE join_or_leave(d, self, credentials, {}, options, FALSE)

handle_deconfigure(d, self, options) ==
    join_or_leave(d, self, DeconfigureCredential, {}, options, FALSE)

(* ---------------------- completion of join and leave ------------------- *)

\* (mutation) a failed flush turns the join into a failure
on_name_caches_flush_FailOnStatus(d, status) ==
    IF status # 0
    THEN Finish(method_closure_free(enroll_method_reply(
             Diagnostics(d, "error", "Flushing name caches failed"),
             GError("REALM_ERROR", "REALM_ERROR_FAILED", "flush"))))
    ELSE Finish(method_closure_free(enroll_method_reply(d, NoError)))

\* (mutation) the flush callback looks at the cancellation token
on_name_caches_flush_CancelledWins(d, status) ==
    IF d.v.cancelled
    THEN Finish(method_closure_free(enroll_method_reply(d, Cancelled)))
    ELSE Finish(method_closure_free(enroll_method_reply(d, NoError)))

on_name_caches_flush(d, status) ==
    LET d1 == IF status # 0
              THEN Diagnostics(d, "error", "Flushing name caches failed")
              ELSE d
    IN Finish(method_closure_free(enroll_method_reply(d1, NoError)))

\* (mutation) the cancellation token is not looked at
FinishOrCancelled_IgnoreToken(d, result) ==
    [d |-> [d EXCEPT !.v.finish_calls = @ + 1], error |-> result]

\* g_cancellable_set_error_if_cancelled, else the back-end's finish call.
FinishOrCancelled(d, result) ==
    IF d.v.cancelled
    THEN [d |-> d, error |-> Cancelled]
    ELSE [d |-> [d EXCEPT !.v.finish_calls = @ + 1], error |-> result]

on_enroll_complete(d, result, install) ==
    LET iface == REALM_KERBEROS_MEMBERSHIP_GET_IFACE(Object(d.v.closure.self))
        finished == FinishOrCancelled(d, result)
    IN IF ~iface.join_finish
       THEN Finish(d)
       ELSE IF finished.error # NoError
       THEN Finish(method_closure_free(enroll_method_reply(finished.d, finished.error)))
       ELSE IF ~install
       THEN [finished.d EXCEPT !.v.pc = "flushing"]
       ELSE Finish(enroll_method_reply(finished.d, NoError))

\* (mutation) a successful leave is followed by the name-cache flush
on_unenroll_complete_WithFlush(d, result) ==
    LET finished == FinishOrCancelled(d, result)
    IN IF finished.error # NoError
       THEN Finish(method_closure_free(unenroll_method_reply(finished.d, finished.error)))
       ELSE [finished.d EXCEPT !.v.pc = "flushing"]

on_unenroll_complete(d, result) ==
    LET iface == REALM_KERBEROS_MEMBERSHIP_GET_IFACE(Object(d.v.closure.self))
        finished == FinishOrCancelled(d, result)
    IN IF ~iface.leave_finish
       THEN Finish(d)
       ELSE Finish(method_closure_free(unenroll_method_reply(finished.d, finished.error)))

(* ----------------------------- login policy ---------------------------- *)

\* handle_change_login_policy: the loop over the tokens, from token i on.
RECURSIVE ParsePolicies(_, _, _, _)
ParsePolicies(policies, i, policy, policies_set) ==
    IF i > Len(policies)
    THEN [unknown |-> FALSE, policy |-> policy, policies_set |-> policies_set]
    ELSE IF policies[i] = <<REALM_DBUS_LOGIN_POLICY_ANY>>
    THEN ParsePolicies(policies, i + 1, "REALM_KERBEROS_ALLOW_ANY_LOGIN", policies_set + 1)
    ELSE IF policies[i] = <<REALM_DBUS_LOGIN_POLICY_REALM>>
    THEN ParsePolicies(policies, i + 1, "REALM_KERBEROS_ALLOW_REALM_LOGINS", policies_set + 1)
    ELSE IF policies[i] = <<REALM_DBUS_LOGIN_POLICY_PERMITTED>>
    THEN ParsePolicies(policies, i + 1, "REALM_KERBEROS_ALLOW_PERMITTED_LOGINS", policies_set + 1)
    ELSE IF policies[i] = <<REALM_DBUS_LOGIN_POLICY_DENY>>
    THEN ParsePolicies(policies, i + 1, "REALM_KERBEROS_DENY_ANY_LOGIN", policies_set + 1)
    ELSE [unknown |-> TRUE, policy |-> policy, policies_set |-> policies_set]

\* The generated D-Bus skeleton answers a call whose handler returned FALSE.
UnhandledMethod(d) ==
    Return(d, GError("G_DBUS_ERROR", "G_DBUS_ERROR_UNKNOWN_METHOD",
                     "Method is not implemented on interface"))

\* (mutation) the lock is taken before the policy string is validated
handle_change_login_policy_LockFirst(d, self, login_policy) ==
    LET klass == REALM_KERBEROS_GET_CLASS(self)
        parsed == ParsePolicies(g_strsplit_set(login_policy), 1,
                                "REALM_KERBEROS_POLICY_NOT_SET", 0)
        locked == realm_invocation_lock_daemon(d)
    IN IF ~locked.ok
       THEN Exit(Return(d, BusyReply), "busy")
       ELSE IF parsed.unknown
       THEN Exit(Return(locked.d, GError("G_DBUS_ERROR", "G_DBUS_ERROR_INVALID_ARGS",
                                         "Invalid or unknown login_policy argument")),
                 "policy_unknown")
       ELSE IF parsed.policies_set > 1
       THEN Exit(Return(locked.d, GError("G_DBUS_ERROR", "G_DBUS_ERROR_INVALID_ARGS",
                                         "Conflicting flags in login_policy argument")),
                 "policy_conflict")
       ELSE IF ~klass.logins_async
       THEN Exit(UnhandledMethod(locked.d), "async_missing")
       ELSE [method_closure_new(locked.d, self)
                EXCEPT !.v.exit = "dispatched",
                       !.v.pc = "dispatched",
                       !.v.policy = parsed.policy,
                       !.v.async_calls = @ + 1]

\* (mutation) a conflict between tokens is not detected: the last one wins
handle_change_login_policy_NoConflictCheck(d, self, login_policy) ==
    LET klass == REALM_KERBEROS_GET_CLASS(self)
        parsed == ParsePolicies(g_strsplit_set(login_policy), 1,
                                "REALM_KERBEROS_POLICY_NOT_SET", 0)
        locked == realm_invocation_lock_daemon(d)
    IN IF parsed.unknown
       THEN Exit(Return(d, GError("G_DBUS_ERROR", "G_DBUS_ERROR_INVALID_ARGS",
                                  "Invalid or unknown login_policy argument")),
                 "policy_unknown")
       ELSE IF ~locked.ok
       THEN Exit(Return(d, BusyReply), "busy")
       ELSE IF ~klass.logins_async
       THEN Exit(UnhandledMethod(locked.d), "async_missing")
       ELSE [method_closure_new(locked.d, self)
                EXCEPT !.v.exit = "dispatched",
                       !.v.pc = "dispatched",
                       !.v.policy = parsed.policy,
                       !.v.async_calls = @ + 1]

\* (mutation) the Busy path does not return: the back-end is called all the same
handle_change_login_policy_DispatchOnBusy(d, self, login_policy) ==
    LET klass == REALM_KERBEROS_GET_CLASS(self)
        parsed == ParsePolicies(g_strsplit_set(login_policy), 1,
                                "REALM_KERBEROS_POLICY_NOT_SET", 0)
        locked == realm_invocation_lock_daemon(d)
        entered == IF locked.ok THEN locked.d ELSE Return(d, BusyReply)
    IN IF parsed.unknown
       THEN Exit(Return(d, GError("G_DBUS_ERROR", "G_DBUS_ERROR_INVALID_ARGS",
                                  "Invalid or unknown login_policy argument")),
                 "policy_unknown")
       ELSE IF parsed.policies_set > 1
       THEN Exit(Return(d, GError("G_DBUS_ERROR", "G_DBUS_ERROR_INVALID_ARGS",
                                  "Conflicting flags in login_policy argument")),
                 "policy_conflict")
       ELSE IF ~klass.logins_async
       THEN Exit(UnhandledMethod(entered), "async_missing")
       ELSE [method_closure_new(entered, self)
                EXCEPT !.v.exit = IF locked.ok THEN "dispatched" ELSE "busy",
                       !.v.pc = "dispatched",
                       !.v.policy = parsed.policy,
                       !.v.async_calls = @ + 1]

handle_change_login_policy(d, self, login_policy) ==
    LET klass == REALM_KERBEROS_GET_CLASS(self)
        parsed == ParsePolicies(g_strsplit_set(login_policy), 1,
                                "REALM_KERBEROS_POLICY_NOT_SET", 0)
        locked == realm_invocation_lock_daemon(d)
    IN IF parsed.unknown
       THEN Exit(Return(d, GError("G_DBUS_ERROR", "G_DBUS_ERROR_INVALID_ARGS",
                                  "Invalid or unknown login_policy argument")),
                 "policy_unknown")
       ELSE IF parsed.policies_set > 1
       THEN Exit(Return(d, GError("G_DBUS_ERROR", "G_DBUS_ERROR_INVALID_ARGS",
                                  "Conflicting flags in login_policy argument")),
                 "policy_conflict")
       ELSE IF ~locked.ok
       THEN Exit(Return(d, BusyReply), "busy")
       ELSE IF ~klass.logins_async
       THEN Exit(UnhandledMethod(locked.d), "async_missing")
       ELSE [method_closure_new(locked.d, self)
                EXCEPT !.v.exit = "dispatched",
                       !.v.pc = "dispatched",
                       !.v.policy = parsed.policy,
                       !.v.async_calls = @ + 1]

\* What logins_finish can return: TRUE, or FALSE with or without an error.
LoginsResults ==
    {[ok |-> TRUE, error |-> NoError]} \cup [ok : {FALSE}, error : BackendResults]

on_logins_complete(d, result) ==
    LET klass == REALM_KERBEROS_GET_CLASS(Object(d.v.closure.self))
        d1 == [d EXCEPT !.v.finish_calls = @ + 1]
        replied ==
            IF result.ok
            THEN Return(Diagnostics(d1, "info",
                                    "Successfully changed permitted logins for realm"),
                        EmptyReply)
            ELSE IF result.error.domain \in {"REALM_ERROR", "G_DBUS_ERROR"}
            THEN Return(Diagnostics(d1, "error", "NULL"), result.error)
            ELSE Return(Diagnostics(d1, "error", "Failed to change permitted logins"),
                        GError("REALM_ERROR", "REALM_ERROR_INTERNAL",
                               "Failed to change permitted logins. See diagnostics."))
    IN IF ~klass.logins_finish
       THEN Finish(d)
       ELSE Finish(method_closure_free(realm_invocation_unlock_daemon(replied)))

(* ------------------------------ authorization ------------------------- *)

NotAuthorizedReply ==
    GError("REALM_ERROR", "REALM_ERROR_NOT_AUTHORIZED",
           "Not authorized to perform this action")

\* realm_invocation_authorize: asks the authorization oracle about the
\* invocation; on a refusal it answers the caller and returns FALSE.
realm_invocation_authorize(d, oracle) ==
    [ok |-> oracle, d |-> IF oracle THEN d ELSE Return(d, NotAuthorizedReply)]

realm_kerberos_authorize_method(d, oracle) == realm_invocation_authorize(d, oracle)

\* (mutation) the handler runs whatever authorize_method returned
AuthorizedMethod_IgnoreVerdict(d, oracle, handled) == handled

\* A method call on an interface of the realm object: the object skeleton's
\* authorize_method is run first, and the handler connected to the interface
\* (handled: the frames it can return with) only when that returned TRUE.
AuthorizedMethod(d, oracle, handled) ==
    LET authorized == realm_kerberos_authorize_method(d, oracle)
    IN IF authorized.ok THEN handled ELSE { Exit(authorized.d, "not_authorized") }

(* ------------------------- the realm's properties ---------------------- *)

\* realm_kerberos_login_policy_to_string with the realm policy under the name
\* of the any-login policy.
realm_kerberos_login_policy_to_string_RealmAsAny(value) ==
    CASE value = "REALM_KERBEROS_ALLOW_ANY_LOGIN" -> REALM_DBUS_LOGIN_POLICY_ANY
      [] value = "REALM_KERBEROS_ALLOW_REALM_LOGINS" -> REALM_DBUS_LOGIN_POLICY_ANY
      [] value = "REALM_KERBEROS_ALLOW_PERMITTED_LOGINS" -> REALM_DBUS_LOGIN_POLICY_PERMITTED
      [] value = "REALM_KERBEROS_DENY_ANY_LOGIN" -> REALM_DBUS_LOGIN_POLICY_DENY
      [] value = "REALM_KERBEROS_POLICY_NOT_SET" -> ""
      [] OTHER -> ""

realm_kerberos_login_policy_to_string(value) ==
    CASE value = "REALM_KERBEROS_ALLOW_ANY_LOGIN" -> REALM_DBUS_LOGIN_POLICY_ANY
      [] value = "REALM_KERBEROS_ALLOW_REALM_LOGINS" -> REALM_DBUS_LOGIN_POLICY_REALM
      [] value = "REALM_KERBEROS_ALLOW_PERMITTED_LOGINS" -> REALM_DBUS_LOGIN_POLICY_PERMITTED
      [] value = "REALM_KERBEROS_DENY_ANY_LOGIN" -> REALM_DBUS_LOGIN_POLICY_DENY
      [] value = "REALM_KERBEROS_POLICY_NOT_SET" -> ""
      [] OTHER -> ""

\* The setters take and give the properties of the realm object's skeleton.
realm_kerberos_set_login_policy(iface, value) ==
    [iface EXCEPT !.login_policy = realm_kerberos_login_policy_to_string(value)]

realm_kerberos_set_permitted_logins(iface, value) ==
    [iface EXCEPT !.permitted_logins = value]

\* (mutation) the configured property is left as it is
realm_kerberos_set_configured_Ignored(iface, configured) == iface

realm_kerberos_set_configured(iface, configured) ==
    [iface EXCEPT !.configured =
        IF configured THEN "REALM_DBUS_KERBEROS_MEMBERSHIP_INTERFACE" ELSE ""]

realm_kerberos_is_configured(iface) == iface.configured # ""

\* The permitted-logins lists a back-end can arrive at from the add and remove
\* arguments, which the handler hands over as they are.
PermittedLogins == { << >>, <<"user">> }

(* --------------------------- ticket acquisition ------------------------ *)

\* Most finish calls made on one result.
MaxFinish == 2

\* (mutation) only a bad password counts as a rejected credential
AuthCodes_PreauthOnly == {"KRB5KDC_ERR_PREAUTH_FAILED"}

\* The six Kerberos error codes that realm_kerberos_kinit_ccache_finish tests
\* for.
AuthCodes ==
    {"KRB5KDC_ERR_PREAUTH_FAILED", "KRB5KDC_ERR_C_PRINCIPAL_UNKNOWN",
     "KRB5KDC_ERR_KEY_EXP", "KRB5KDC_ERR_CLIENT_REVOKED",
     "KRB5KDC_ERR_POLICY", "KRB5KDC_ERR_ETYPE_NOSUPP"}

\* The codes krb5_get_init_creds_password can fail with: the codes of a KDC's
\* error reply (the six above among them), a KDC that is not found or not
\* reached, and the code bytes_prompter returns for a password that is too long.
Krb5Codes ==
    {"KRB5KDC_ERR_PREAUTH_FAILED", "KRB5KDC_ERR_C_PRINCIPAL_UNKNOWN",
     "KRB5KDC_ERR_KEY_EXP", "KRB5KDC_ERR_CLIENT_REVOKED",
     "KRB5KDC_ERR_POLICY", "KRB5KDC_ERR_ETYPE_NOSUPP",
     "KRB5KDC_ERR_S_PRINCIPAL_UNKNOWN", "KRB5_KDC_UNREACH",
     "KRB5_REALM_UNKNOWN", "KRB5_LIBOS_CANTREADPWD"}

\* The library calls that do not talk to a KDC, with the codes they fail with.
LocalSteps ==
    { [step |-> "krb5_init_context", code |-> "KRB5_CONFIG_CANTOPEN"],
      [step |-> "krb5_init_context", code |-> "ENOMEM"],
      [step |-> "krb5_parse_name", code |-> "KRB5_PARSE_MALFORMED"],
      [step |-> "krb5_parse_name", code |-> "ENOMEM"],
      [step |-> "krb5_cc_resolve", code |-> "KRB5_CC_UNKNOWN_TYPE"],
      [step |-> "krb5_cc_resolve", code |-> "ENOMEM"] }

\* What the worker can run into: the library call that fails, with its code,
\* or none. The file creation fails with an errno, not a Kerberos code.
KinitOutcomes ==
    LocalSteps
        \cup [step : {"krb5_get_init_creds_password"}, code : Krb5Codes]
        \cup {[step |-> "g_mkstemp_full", code |-> "errno"],
              [step |-> "none", code |-> "0"]}

set_krb5_error(code, message) == GError("REALM_KRB5_ERROR", code, message)

\* g_simple_async_result_take_error / _set_error
g_simple_async_result_take_error(k, error) == [k EXCEPT !.failed = TRUE, !.error = error]

\* Login names are strings of at most MaxNameLen characters, '@' among them.
MaxNameLen == 3
NameChars == {"u", "@", "R"}
LoginNames == UNION { [1..n -> NameChars] : n \in 0..MaxNameLen }

\* realm_kerberos_get_realm_name of realm objects whose discovery named a realm
RealmNames == { <<"R">>, <<"A","D">>, <<"a","d",".","e","x","a","m","p","l","e">> }

\* strchr (s, c): the index of the first c in s, 0 (NULL) when there is none.
RECURSIVE strchr_from(_, _, _)
strchr_from(s, c, k) ==
    IF k > Len(s) THEN 0
    ELSE IF s[k] = c THEN k
    ELSE strchr_from(s, c, k + 1)

strchr(s, c) == strchr_from(s, c, 1)

\* (mutation) the realm name is appended to every login name
kinit_principal_AlwaysAppend(name, realm_name) == name \o <<"@">> \o realm_name

\* realm_kerberos_kinit_ccache_async: kinit->principal
kinit_principal(name, realm_name) ==
    IF strchr(name, "@") = 0
    THEN name \o <<"@">> \o realm_name
    ELSE name

\* realm_kerberos_kinit_ccache_async: the result and its KinitClosure, with the
\* worker scheduled. No cache file is named yet and the disk holds none.
realm_kerberos_kinit_ccache_async ==
    [pc |-> "running", failed |-> FALSE, error |-> NoError,
     ccache_file |-> "NULL", file |-> "absent",
     outcome |-> [step |-> "pending", code |-> "0"], returns |-> << >>]

\* kinit_ccache_thread_func, with the library calls behaving as outcome says.
kinit_ccache_thread_func(k, outcome) ==
    LET k0 == [k EXCEPT !.outcome = outcome, !.pc = "complete"]
        named == [k0 EXCEPT !.ccache_file = "template"]
        created == [k0 EXCEPT !.ccache_file = "cache", !.file = "S_IRUSR | S_IWUSR"]
    IN CASE outcome.step = "krb5_init_context" ->
              g_simple_async_result_take_error(k0,
                  set_krb5_error(outcome.code, "Couldn't initialize kerberos"))
         [] outcome.step = "krb5_parse_name" ->
              g_simple_async_result_take_error(k0,
                  set_krb5_error(outcome.code, "Couldn't parse principal"))
         [] outcome.step = "g_mkstemp_full" ->
              g_simple_async_result_take_error(named,
                  GError("G_FILE_ERROR", outcome.code,
                         "Couldn't create credential cache file"))
         [] outcome.step = "krb5_cc_resolve" ->
              g_simple_async_result_take_error(created,
                  set_krb5_error(outcome.code, "Couldn't resolve credential cache"))
         [] outcome.step = "krb5_get_init_creds_password" ->
              g_simple_async_result_take_error(created,
                  set_krb5_error(outcome.code, "Couldn't authenticate as"))
         [] OTHER -> created

\* g_simple_async_result_propagate_error: a failed result hands over its error
\* and keeps none; it stays failed.
g_simple_async_result_propagate_error(k) ==
    [k |-> [k EXCEPT !.error = NoError], propagated |-> k.failed, dest |-> k.error]

\* (mutation) the path is returned and the closure keeps it
realm_kerberos_kinit_ccache_finish_KeepsPath(k) ==
    LET p == g_simple_async_result_propagate_error(k)
    IN IF p.propagated
       THEN [p.k EXCEPT !.returns = Append(@, [filename |-> "NULL", error |-> p.dest])]
       ELSE [p.k EXCEPT !.returns = Append(@, [filename |-> k.ccache_file,
                                                error |-> NoError])]

\* realm_kerberos_kinit_ccache_finish: what it returns (the file name and
\* *error) is appended to returns.
realm_kerberos_kinit_ccache_finish(k) ==
    LET p == g_simple_async_result_propagate_error(k)
        krb5_error == p.dest
    IN IF p.propagated
       THEN IF krb5_error.domain = "REALM_KRB5_ERROR" /\ krb5_error.code \in AuthCodes
            THEN [p.k EXCEPT !.returns =
                     Append(@, [filename |-> "NULL",
                                error |-> GError("REALM_ERROR", "REALM_ERROR_AUTH_FAILED",
                                                 "Couldn't authenticate as")])]
            ELSE [p.k EXCEPT !.returns =
                     Append(@, [filename |-> "NULL", error |-> krb5_error])]
       ELSE [p.k EXCEPT !.returns = Append(@, [filename |-> k.ccache_file,
                                                error |-> NoError]),
                        !.ccache_file = "NULL"]

\* realm_credential_ccache_delete_and_free: unlinks the named file, if any.
realm_credential_ccache_delete_and_free(k) ==
    IF k.ccache_file = "cache" THEN [k EXCEPT !.file = "absent"] ELSE k

\* kinit_closure_free, run when the result is destroyed.
kinit_closure_free(k) ==
    [realm_credential_ccache_delete_and_free(k) EXCEPT !.pc = "destroyed"]

(* ------------------------------ discovery ------------------------------ *)

\* Providers registered with the daemon, and Discover calls issued in one run.
MaxProviders == 3
MaxDiscoveries == 2

\* What realm_ad_discover_finish hands to the Samba provider: a domain name, no
\* name with the error of the lookup that failed, or no name and no error.
AdResults ==
    { [name |-> "ad.example.com", error |-> NoError],
      [name |-> "NULL", error |-> NoError],
      [name |-> "NULL", error |-> GError("G_RESOLVER_ERROR", "NOT_FOUND", "dns")],
      [name |-> "NULL", error |-> GError("REALM_LDAP_ERROR", "LDAP_SERVER_DOWN", "ldap")] }

\* The result of a provider's discover_finish: its return value (the priority),
\* and what it stored in *realms and *error.
ProviderResult(priority, realms, error) ==
    [priority |-> priority, realms |-> realms, error |-> error]

\* (mutation) a realm that could not be registered is reported all the same
realm_samba_provider_discover_finish_RegisterIgnored(ad_result, registered, is_default) ==
    IF ad_result.name = "NULL"
    THEN ProviderResult(0, << >>, ad_result.error)
    ELSE ProviderResult(IF is_default THEN 100 ELSE 50,
                        IF registered
                        THEN <<[object_path |-> ad_result.name,
                                interface |-> "REALM_DBUS_KERBEROS_REALM_INTERFACE"]>>
                        ELSE << >>,
                        NoError)

\* realm_samba_provider_discover_finish; registered tells whether
\* realm_provider_lookup_or_register_realm returned a realm object, is_default
\* what realm_provider_is_default ("active-directory", "winbind") returned.
realm_samba_provider_discover_finish(ad_result, registered, is_default) ==
    IF ad_result.name = "NULL"
    THEN ProviderResult(0, << >>, ad_result.error)
    ELSE IF ~registered
    THEN ProviderResult(0, << >>, NoError)
    ELSE ProviderResult(IF is_default THEN 100 ELSE 50,
                        <<[object_path |-> ad_result.name,
                           interface |-> "REALM_DBUS_KERBEROS_REALM_INTERFACE"]>>,
                        NoError)

SambaResults ==
    { realm_samba_provider_discover_finish(ad_result, registered, is_default) :
        ad_result \in AdResults, registered \in BOOLEAN, is_default \in BOOLEAN }

\* The results of the registered providers in general: those of the Samba
\* provider, and a realm found with a priority between its two.
ProviderResults ==
    SambaResults \cup
    { ProviderResult(70, <<[object_path |-> "ipa.example.com",
                            interface |-> "REALM_DBUS_KERBEROS_REALM_INTERFACE"]>>,
                     NoError) }

Pending == [priority |-> -1, realms |-> << >>, error |-> NoError]

\* A Discover call fanned out to the first n registered providers.
\*   results   per provider, in registration order: its result once it completed
\*   order     the providers in the order in which they completed
\*   failure   the first error a provider reported
\*   reply     the reply of the call
NoReply == [code |-> "none"]

NewDiscovery(n) ==
    [pc |-> "running", results |-> [p \in 1..n |-> Pending], order |-> << >>,
     failure |-> NoError, reply |-> NoReply]

\* A Discover handler that refuses the call while the daemon lock is held.
handle_discover_Locked(lock, n) ==
    IF lock # NoInvocation
    THEN [NewDiscovery(n) EXCEPT !.pc = "done", !.reply = BusyReply]
    ELSE NewDiscovery(n)

\* The Discover handler: starts the discovery of every registered provider,
\* whoever holds the daemon lock.
handle_discover(lock, n) == NewDiscovery(n)

\* (mutation) among the highest priorities the provider that completed first wins
Winner_FirstCompleted(results, order) ==
    LET highest == CHOOSE x \in {results[p].priority : p \in DOMAIN results} :
                       \A q \in DOMAIN results : results[q].priority <= x
    IN order[CHOOSE k \in DOMAIN order :
                 /\ results[order[k]].priority = highest
                 /\ \A j \in 1..(k - 1) : results[order[j]].priority < highest]

\* The winner among the completed providers: the highest priority, and on a tie
\* the provider registered first.
Winner(results, order) ==
    LET highest == CHOOSE x \in {results[p].priority : p \in DOMAIN results} :
                       \A q \in DOMAIN results : results[q].priority <= x
    IN CHOOSE p \in DOMAIN results :
           /\ results[p].priority = highest
           /\ \A q \in 1..(p - 1) : results[q].priority < highest

DiscoveryFailed(failure) ==
    [code |-> "REALM_ERROR_DISCOVERY_FAILED", winner |-> 0, realms |-> << >>,
     error |-> failure]

\* Provider p of discovery v completed with result: the result is collected,
\* and once every provider has completed the call is answered.
on_provider_discover(v, p, result) ==
    LET collected == [v EXCEPT !.results[p] = result,
                               !.order = Append(@, p),
                               !.failure = IF @ = NoError THEN result.error ELSE @]
        winner == Winner(collected.results, collected.order)
    IN IF \E q \in DOMAIN collected.results : collected.results[q] = Pending
       THEN collected
       ELSE [collected EXCEPT
                !.pc = "done",
                !.reply = IF collected.results[winner].priority = 0
                          THEN DiscoveryFailed(collected.failure)
                          ELSE [code |-> "OK", winner |-> winner,
                                realms |-> collected.results[winner].realms,
                                error |-> NoError]]

(* ------------------- the realms of the Samba provider ------------------ *)

\* Domain names as realm_ad_discover_finish and smb.conf give them: two domains
\* in several spellings.
DomainNames ==
    { <<"a","d">>, <<"A","D">>, <<"A","d">>, <<"o","r","g">>, <<"O","r","g">> }

\* A string pointer that is NULL, told apart from every string of characters.
NullString == <<"NULL">>

\* The discovery data (a GHashTable) of two different lookups.
DiscoveryData == {"discovery1", "discovery2"}

g_ascii_strdown(string) == [k \in DOMAIN string |-> g_ascii_tolower(string[k])]

\* realm_provider_lookup_or_register_realm: the realm object registered under
\* the normalized name, created and registered when there is none yet. A realm
\* object is its position in the registry; 0 is NULL (no object was made).
realm_provider_lookup_or_register_realm(realms, name, made) ==
    LET key == g_ascii_strdown(name)
    IN IF \E k \in DOMAIN realms : realms[k].name = key
       THEN [registry |-> realms,
             realm |-> CHOOSE k \in DOMAIN realms : realms[k].name = key]
       ELSE IF ~made
       THEN [registry |-> realms, realm |-> 0]
       ELSE [registry |-> Append(realms, [name |-> key, discovery |-> "NULL"]),
             realm |-> Len(realms) + 1]

\* (mutation) discovery data once attached is kept
realm_kerberos_set_discovery_KeepFirst(self, discovery) ==
    IF self.discovery = "NULL" THEN [self EXCEPT !.discovery = discovery] ELSE self

realm_kerberos_set_discovery(self, discovery) == [self EXCEPT !.discovery = discovery]

\* realm_samba_provider_discover_finish on the provider's realms: the realms
\* afterwards, the realm object returned in *realms (0: none) and the priority.
SambaDiscoverFinish(realms, name, discovery, made, is_default) ==
    IF name = NullString
    THEN [registry |-> realms, realm |-> 0, priority |-> 0]
    ELSE LET found == realm_provider_lookup_or_register_realm(realms, name, made)
         IN IF found.realm = 0
            THEN [registry |-> found.registry, realm |-> 0, priority |-> 0]
            ELSE [registry |-> [found.registry EXCEPT ![found.realm] =
                                   realm_kerberos_set_discovery(@, discovery)],
                  realm |-> found.realm,
                  priority |-> IF is_default THEN 100 ELSE 50]

\* realm_samba_provider_constructed: with security = ADS in smb.conf the
\* configured realm is registered at start.
realm_samba_provider_constructed(realms, security, name) ==
    IF /\ security # NullString
       /\ g_ascii_strcasecmp_eq(security, <<"A","D","S">>)
       /\ name # NullString
    THEN realm_provider_lookup_or_register_realm(realms, name, TRUE).registry
    ELSE realms

(* ------------------------------- actions ------------------------------- *)

\* The properties of a realm object's skeleton after construction.
NewRealmIface == [login_policy |-> "", permitted_logins |-> << >>, configured |-> ""]

\* No ticket acquisition has been started.
NoKinit == [pc |-> "none"]

Init ==
    /\ invocations = [i \in Ids |-> NewInvocation]
    /\ current_invocation = NoInvocation
    /\ install_mode \in BOOLEAN
    /\ crashed = FALSE
    /\ realm_iface = [self \in {r.name : r \in Realms} |-> NewRealmIface]
    /\ kinit = NoKinit
    /\ discoveries = << >>
    /\ registry = << >>
    /\ keytab = NewKeytab(<< >>)
    /\ call = NoCall

\* Invocation i is the next to arrive: ids are handed out in order.
Arrives(i) ==
    /\ ~crashed
    /\ invocations[i].pc = "idle"
    /\ \A j \in Ids : j < i => invocations[j].pc # "idle"

Started(i, method) == [Frame(i) EXCEPT !.v.method = method]

Apply(d) ==
    /\ invocations' = [invocations EXCEPT ![d.id] = d.v]
    /\ current_invocation' = d.lock
    /\ crashed' = d.crashed
    /\ UNCHANGED <<install_mode, realm_iface, kinit, discoveries, registry, keytab>>

\* Join and Leave are exported only by realm objects that implement the
\* membership interface (realm_kerberos_constructed).
Join(i, self, hostname, credentials, options) ==
    /\ REALM_KERBEROS_MEMBERSHIP_GET_IFACE(self).membership
    /\ \E d \in handle_join(Started(i, "Join"), self, hostname, credentials, options) :
          Apply(d)

HandleJoin(i) ==
    /\ Arrives(i)
    /\ \E self \in Realms, hostname \in HostNameSamples,
          credentials \in CredentialWires, options \in {NoOptions} :
          Join(i, self, hostname, credentials, options)
    /\ call' = NoCall

HandleLeave(i) ==
    /\ Arrives(i)
    /\ \E self \in Realms, credentials \in CredentialWires, options \in Options :
          /\ REALM_KERBEROS_MEMBERSHIP_GET_IFACE(self).membership
          /\ \E d \in handle_leave(Started(i, "Leave"), self, credentials, options) :
                Apply(d)
    /\ call' = NoCall

HandleDeconfigure(i) ==
    /\ Arrives(i)
    /\ \E self \in Realms, options \in Options :
          \E d \in handle_deconfigure(Started(i, "Deconfigure"), self, options) :
             Apply(d)
    /\ call' = NoCall

HandleChangeLoginPolicy(i) ==
    /\ Arrives(i)
    /\ \E self \in Realms, login_policy \in PolicySamples :
          Apply(handle_change_login_policy(Started(i, "ChangeLoginPolicy"),
                                           self, login_policy))
    /\ call' = NoCall

InFlight(i, methods, pc) ==
    /\ ~crashed
    /\ invocations[i].pc = pc
    /\ invocations[i].method \in methods

OnEnrollComplete(i) ==
    /\ InFlight(i, {"Join"}, "dispatched")
    /\ \E result \in BackendResults :
          Apply(on_enroll_complete(Frame(i), result, install_mode))
    /\ call' = NoCall

OnNameCachesFlush(i) ==
    /\ InFlight(i, {"Join"}, "flushing")
    /\ \E status \in {0, 1} :
          Apply(on_name_caches_flush(Frame(i), status))
    /\ call' = NoCall

OnUnenrollComplete(i) ==
    /\ InFlight(i, {"Leave", "Deconfigure"}, "dispatched")
    /\ \E result \in BackendResults :
          Apply(on_unenroll_complete(Frame(i), result))
    /\ call' = NoCall

OnLoginsComplete(i) ==
    /\ InFlight(i, {"ChangeLoginPolicy"}, "dispatched")
    /\ \E result \in LoginsResults :
          Apply(on_logins_complete(Frame(i), result))
    /\ call' = NoCall

\* (mutation) firing the cancellation token releases the lock at once
Cancel_UnlocksEarly(i) ==
    /\ ~crashed
    /\ invocations[i].pc \in {"dispatched", "flushing"}
    /\ ~invocations[i].cancelled
    /\ invocations' = [invocations EXCEPT ![i].cancelled = TRUE, ![i].unlocks = @ + 1]
    /\ current_invocation' = NoInvocation
    /\ call' = NoCall
    /\ UNCHANGED <<install_mode, crashed, realm_iface, kinit, discoveries, registry, keytab>>

\* The caller cancels the invocation (or disappears) while it is in flight.
Cancel(i) ==
    /\ ~crashed
    /\ invocations[i].pc \in {"dispatched", "flushing"}
    /\ ~invocations[i].cancelled
    /\ invocations' = [invocations EXCEPT ![i].cancelled = TRUE]
    /\ call' = NoCall
    /\ UNCHANGED <<current_invocation, install_mode, crashed, realm_iface, kinit,
                   discoveries, registry, keytab>>

Next ==
    \E i \in Ids :
        \/ HandleJoin(i)
        \/ HandleLeave(i)
        \/ HandleDeconfigure(i)
        \/ HandleChangeLoginPolicy(i)
        \/ OnEnrollComplete(i)
        \/ OnNameCachesFlush(i)
        \/ OnUnenrollComplete(i)
        \/ OnLoginsComplete(i)
        \/ Cancel(i)

Spec == Init /\ [][Next]_vars

\* Every back-end call and every name-cache flush in flight eventually invokes
\* its completion callback.
CallbacksRun ==
    \A i \in Ids :
        /\ WF_vars(OnEnrollComplete(i))
        /\ WF_vars(OnNameCachesFlush(i))
        /\ WF_vars(OnUnenrollComplete(i))
        /\ WF_vars(OnLoginsComplete(i))

SpecLive == Spec /\ CallbacksRun

(* --------------------- the login policy of a realm --------------------- *)

\* The back-end's logins_async at work for invocation i: it stores the new list
\* of permitted logins and, when a policy was given, the new policy.
BackendLogins(i) ==
    /\ InFlight(i, {"ChangeLoginPolicy"}, "dispatched")
    /\ \E logins \in PermittedLogins :
          LET self == invocations[i].closure.self
              policy == invocations[i].policy
              listed == realm_kerberos_set_permitted_logins(realm_iface[self], logins)
          IN realm_iface' =
                [realm_iface EXCEPT ![self] =
                    IF policy = "REALM_KERBEROS_POLICY_NOT_SET"
                    THEN listed
                    ELSE realm_kerberos_set_login_policy(listed, policy)]
    /\ call' = NoCall
    /\ UNCHANGED <<invocations, current_invocation, install_mode, crashed, kinit,
                   discoveries, registry, keytab>>

\* The realm objects whose login policy is changed: one whose class has the
\* logins entry points and one whose class has not.
LoginsRealms == {Samba, Kerberos}

ChangeLoginPolicy(i) ==
    /\ Arrives(i)
    /\ \E self \in LoginsRealms, login_policy \in LoginsPolicySamples :
          Apply(handle_change_login_policy(Started(i, "ChangeLoginPolicy"),
                                           self, login_policy))
    /\ call' = NoCall

InitLogins ==
    /\ invocations = [i \in Ids |-> NewInvocation]
    /\ current_invocation = NoInvocation
    /\ install_mode = FALSE
    /\ crashed = FALSE
    /\ realm_iface = [self \in {r.name : r \in Realms} |-> NewRealmIface]
    /\ kinit = NoKinit
    /\ discoveries = << >>
    /\ registry = << >>
    /\ keytab = NewKeytab(<< >>)
    /\ call = NoCall

NextLogins ==
    \E i \in Ids :
        \/ ChangeLoginPolicy(i)
        \/ BackendLogins(i)
        \/ OnLoginsComplete(i)
        \/ Cancel(i)

SpecLogins == InitLogins /\ [][NextLogins]_vars

\* The values of RealmKerberosLoginPolicy.
RealmKerberosLoginPolicy ==
    {"REALM_KERBEROS_ALLOW_ANY_LOGIN", "REALM_KERBEROS_ALLOW_REALM_LOGINS",
     "REALM_KERBEROS_ALLOW_PERMITTED_LOGINS", "REALM_KERBEROS_DENY_ANY_LOGIN",
     "REALM_KERBEROS_POLICY_NOT_SET"}

\* A policy name as a login_policy argument: the name is one word of the
\* string, and the empty name is the empty string.
LoginPolicyArgument(name) == IF name = "" THEN << >> ELSE <<name>>

\* ChangeLoginPolicy called with the name realm_kerberos_login_policy_to_string
\* gives for a policy.
ChangeLoginPolicyByName(i) ==
    /\ Arrives(i)
    /\ \E self \in LoginsRealms, policy \in RealmKerberosLoginPolicy :
          LET name == realm_kerberos_login_policy_to_string(policy)
          IN /\ Apply(handle_change_login_policy(
                          Started(i, "ChangeLoginPolicy"), self,
                          LoginPolicyArgument(name)))
             /\ call' = [what |-> "policy_name", id |-> i, policy |-> policy,
                         name |-> name]

NextPolicyNames ==
    \E i \in Ids :
        \/ ChangeLoginPolicyByName(i)
        \/ OnLoginsComplete(i)

SpecPolicyNames == InitLogins /\ [][NextPolicyNames]_vars

(* ----------------------- one ticket acquisition ------------------------ *)

KinitStep(next) ==
    /\ kinit' = next
    /\ UNCHANGED <<invocations, current_invocation, install_mode, crashed,
                   realm_iface, discoveries, registry, keytab, call>>

KinitAsync ==
    /\ kinit = NoKinit
    /\ KinitStep(realm_kerberos_kinit_ccache_async)

KinitThread ==
    /\ kinit.pc = "running"
    /\ \E outcome \in KinitOutcomes :
          KinitStep(kinit_ccache_thread_func(kinit, outcome))

\* The completion callback, or whoever holds the result, calls finish.
KinitFinish ==
    /\ kinit.pc = "complete"
    /\ Len(kinit.returns) < MaxFinish
    /\ KinitStep(realm_kerberos_kinit_ccache_finish(kinit))

\* The last reference to the result is dropped.
KinitDestroy ==
    /\ kinit.pc = "complete"
    /\ KinitStep(kinit_closure_free(kinit))

NextKinit == KinitAsync \/ KinitThread \/ KinitFinish \/ KinitDestroy

SpecKinit == InitLogins /\ [][NextKinit]_vars

(* ------------- the threads of one ticket acquisition ------------------- *)

\* call holds the position of the two threads: the caller of
\* realm_kerberos_kinit_ccache_async on the main loop, the worker that
\* g_simple_async_result_run_in_thread schedules, and the number of times the
\* completion callback has been delivered.
ThreadsStep(next, caller, worker, callbacks) ==
    /\ kinit' = next
    /\ call' = [what |-> "kinit_thread", caller |-> caller, worker |-> worker,
                callbacks |-> callbacks]
    /\ UNCHANGED <<invocations, current_invocation, install_mode, crashed,
                   realm_iface, discoveries, registry, keytab>>

\* realm_kerberos_kinit_ccache_async up to g_simple_async_result_run_in_thread
ThreadAsync ==
    /\ kinit = NoKinit
    /\ ThreadsStep(realm_kerberos_kinit_ccache_async, "in_start", "scheduled", 0)

\* ... and its return to the main loop, which waits for nothing
ThreadAsyncReturns ==
    /\ call.what = "kinit_thread"
    /\ call.caller = "in_start"
    /\ ThreadsStep(kinit, "returned", call.worker, call.callbacks)

\* A pool thread picks the job up and enters kinit_ccache_thread_func.
WorkerStarts ==
    /\ call.what = "kinit_thread"
    /\ call.worker = "scheduled"
    /\ ThreadsStep(kinit, call.caller, "working", call.callbacks)

\* kinit_ccache_thread_func runs to its end, writing kinit->ccache_file.
WorkerRuns ==
    /\ call.what = "kinit_thread"
    /\ call.worker = "working"
    /\ \E outcome \in KinitOutcomes :
          ThreadsStep(kinit_ccache_thread_func(kinit, outcome),
                      call.caller, "finished", call.callbacks)

\* (mutation) the callback is delivered as soon as the worker has started
CompleteInIdle_Early ==
    /\ call.what = "kinit_thread"
    /\ call.worker \in {"working", "finished"}
    /\ call.caller = "returned"
    /\ call.callbacks = 0
    /\ ThreadsStep(kinit, call.caller, call.worker, 1)

\* g_simple_async_result_run_in_thread: once the thread function has returned
\* the result is completed in an idle source of the main loop.
CompleteInIdle ==
    /\ call.what = "kinit_thread"
    /\ call.worker = "finished"
    /\ call.caller = "returned"
    /\ call.callbacks = 0
    /\ ThreadsStep(kinit, call.caller, call.worker, 1)

\* The callback, which alone holds the result, calls finish.
ThreadFinish ==
    /\ call.what = "kinit_thread"
    /\ call.callbacks = 1
    /\ kinit.pc # "destroyed"
    /\ Len(kinit.returns) < MaxFinish
    /\ ThreadsStep(realm_kerberos_kinit_ccache_finish(kinit),
                   call.caller, call.worker, call.callbacks)

ThreadDestroy ==
    /\ call.what = "kinit_thread"
    /\ call.callbacks = 1
    /\ kinit.pc # "destroyed"
    /\ ThreadsStep(kinit_closure_free(kinit), call.caller, call.worker, call.callbacks)

NextKinitThreads ==
    \/ ThreadAsync
    \/ ThreadAsyncReturns
    \/ WorkerStarts
    \/ WorkerRuns
    \/ CompleteInIdle
    \/ ThreadFinish
    \/ ThreadDestroy

SpecKinitThreads == InitLogins /\ [][NextKinitThreads]_vars

(* ---------------- the principal of a ticket acquisition ---------------- *)

\* realm_kerberos_kinit_ccache_async is called with a login name on a realm.
KinitPrincipal ==
    /\ \E name \in LoginNames, realm_name \in RealmNames :
          call' = [what |-> "kinit_principal", name |-> name,
                   realm_name |-> realm_name,
                   principal |-> kinit_principal(name, realm_name)]
    /\ UNCHANGED <<invocations, current_invocation, install_mode, crashed,
                   realm_iface, kinit, discoveries, registry, keytab>>

SpecPrincipal == InitLogins /\ [][KinitPrincipal]_vars

(* --------------- method calls with the authorization gate -------------- *)

\* The mutating methods of a realm object, with the handler connected to each
\* by realm_kerberos_init and realm_kerberos_constructed.
MutatingMethods == {"Join", "Leave", "Deconfigure", "ChangeLoginPolicy"}

HandlerOf(d, self, credentials, login_policy) ==
    CASE d.v.method = "Join" ->
           handle_join(d, self, [ret |-> 0, name |-> <<"h","o","s","t","1">>],
                       credentials, NoOptions)
      [] d.v.method = "Leave" -> handle_leave(d, self, credentials, NoOptions)
      [] d.v.method = "Deconfigure" -> handle_deconfigure(d, self, NoOptions)
      [] d.v.method = "ChangeLoginPolicy" ->
           { handle_change_login_policy(d, self, login_policy) }

\* A call of a mutating method of the Samba realm arrives; the oracle's answer
\* is recorded.
MethodCall(i) ==
    /\ Arrives(i)
    /\ \E method \in MutatingMethods, oracle \in BOOLEAN,
          credentials \in {[kind |-> "password", wellformed |-> TRUE],
                           [kind |-> "bogus", wellformed |-> TRUE]},
          login_policy \in PolicySamples :
          /\ \E d \in AuthorizedMethod(Started(i, method), oracle,
                                       HandlerOf(Started(i, method), Samba,
                                                 credentials, login_policy)) :
                Apply(d)
          /\ call' = [what |-> "authorize", id |-> i, authorized |-> oracle]

NextAuthorize ==
    \E i \in Ids :
        \/ MethodCall(i)
        \/ OnEnrollComplete(i)
        \/ OnNameCachesFlush(i)
        \/ OnUnenrollComplete(i)
        \/ OnLoginsComplete(i)
        \/ BackendLogins(i)
        \/ Cancel(i)

SpecAuthorize == InitLogins /\ [][NextAuthorize]_vars

(* ------------- the Samba provider discovering its realms --------------- *)

RegistryStep(next, made) ==
    /\ registry' = next
    /\ call' = made
    /\ UNCHANGED <<invocations, current_invocation, install_mode, crashed,
                   realm_iface, kinit, discoveries, keytab>>

SambaProviderConstructed ==
    /\ registry = << >>
    /\ call = NoCall
    /\ \E security \in {NullString, <<"A","D","S">>, <<"a","d","s">>, <<"u","s","e","r">>},
          name \in DomainNames \cup {NullString} :
          RegistryStep(realm_samba_provider_constructed(registry, security, name),
                       [what |-> "constructed", security |-> security, name |-> name])

SambaProviderDiscovers ==
    \E name \in DomainNames \cup {NullString}, discovery \in DiscoveryData,
       made \in BOOLEAN, is_default \in BOOLEAN :
       LET finished == SambaDiscoverFinish(registry, name, discovery, made, is_default)
       IN RegistryStep(finished.registry,
                       [what |-> "discover_finish", name |-> name,
                        discovery |-> discovery, realm |-> finished.realm,
                        priority |-> finished.priority])

SpecRegistry ==
    InitLogins /\ [][SambaProviderConstructed \/ SambaProviderDiscovers]_vars

(* ------------------------- flushing the keytab ------------------------- *)

KeytabStep(next) ==
    /\ keytab' = next
    /\ UNCHANGED <<invocations, current_invocation, install_mode, crashed,
                   realm_iface, kinit, discoveries, registry, call>>

\* realm_kerberos_flush_keytab is called.  A first krb5_kt_start_seq_get
\* reports KRB5_KT_END or ENOENT only for a keytab without entries.
FlushKeytab ==
    /\ keytab.pc = "none"
    /\ \E realm_name \in KeytabRealms,
          init_context \in KeytabCodes, kt_default \in KeytabCodes,
          parse_name \in KeytabCodes,
          start_seq_get \in KeytabCodes \cup {"KRB5_KT_END", "ENOENT"} :
          /\ start_seq_get \in {"KRB5_KT_END", "ENOENT"} => keytab.entries = << >>
          /\ KeytabStep(realm_kerberos_flush_keytab(keytab, realm_name,
                            init_context, kt_default, parse_name, start_seq_get))

\* The loop of flush_keytab_entries goes round once.
FlushKeytabLoop ==
    /\ keytab.pc = "scan"
    /\ keytab.cursor_valid
    /\ \E next_entry \in KeytabCodes, end_seq_get \in KeytabCodes,
          remove_entry \in KeytabCodes, start_seq_get \in KeytabCodes,
          free_entry \in KeytabCodes :
          KeytabStep(flush_keytab_entries_loop(keytab, next_entry, end_seq_get,
                            remove_entry, start_seq_get, free_entry))

\* The loop is entered with the cursor the failed krb5_kt_start_seq_get never
\* set: krb5_kt_next_entry fails on it, or the read through it ends the
\* process.
FlushKeytabUnsetCursor ==
    /\ keytab.pc = "scan"
    /\ ~keytab.cursor_valid
    /\ \/ \E end_seq_get \in KeytabCodes :
             KeytabStep(flush_keytab_entries_loop(keytab, "error", end_seq_get,
                                                  "0", "0", "0"))
       \/ KeytabStep([keytab EXCEPT !.pc = "crashed"])

InitKeytab ==
    /\ invocations = [i \in Ids |-> NewInvocation]
    /\ current_invocation = NoInvocation
    /\ install_mode = FALSE
    /\ crashed = FALSE
    /\ realm_iface = [self \in {r.name : r \in Realms} |-> NewRealmIface]
    /\ kinit = NoKinit
    /\ discoveries = << >>
    /\ registry = << >>
    /\ \E entries \in Keytabs : keytab = NewKeytab(entries)
    /\ call = NoCall

NextKeytab ==
    \/ FlushKeytab
    \/ FlushKeytabLoop
    \/ FlushKeytabUnsetCursor

SpecKeytab == InitKeytab /\ [][NextKeytab]_vars

\* The flush is one sequential call: it keeps running until it returns.
SpecKeytabLive == SpecKeytab /\ WF_vars(FlushKeytabLoop \/ FlushKeytabUnsetCursor)

(* ------------------------- one Discover call --------------------------- *)

DiscoveryStep(next) ==
    /\ discoveries' = next
    /\ call' = NoCall
    /\ UNCHANGED <<invocations, current_invocation, install_mode, crashed,
                   realm_iface, kinit, registry, keytab>>

\* A Discover call arrives and is fanned out to n providers.
Discover(n) ==
    /\ ~crashed
    /\ Len(discoveries) < MaxDiscoveries
    /\ DiscoveryStep(Append(discoveries, handle_discover(current_invocation, n)))

\* The discovery of provider p of call k completes with a result from results.
ProviderDiscovered(k, results) ==
    /\ ~crashed
    /\ k \in DOMAIN discoveries
    /\ discoveries[k].pc = "running"
    /\ \E p \in DOMAIN discoveries[k].results, result \in results :
          /\ discoveries[k].results[p] = Pending
          /\ DiscoveryStep([discoveries EXCEPT
                               ![k] = on_provider_discover(@, p, result)])

\* One call, fanned out to every registered provider.
DiscoverAll ==
    /\ discoveries = << >>
    /\ Discover(MaxProviders)

AnyProviderDiscovered == ProviderDiscovered(1, ProviderResults)

SpecDiscover == InitLogins /\ [][DiscoverAll \/ AnyProviderDiscovered]_vars

(* ------------- Discover calls next to calls that take the lock --------- *)

\* (mutation) a Discover call is refused while the daemon lock is held
DiscoverSamba_Locked ==
    /\ ~crashed
    /\ Len(discoveries) < MaxDiscoveries
    /\ DiscoveryStep(Append(discoveries, handle_discover_Locked(current_invocation, 1)))

\* The providers of this source tree: the Samba provider alone.
DiscoverSamba == Discover(1)

SambaDiscovered == \E k \in 1..MaxDiscoveries : ProviderDiscovered(k, SambaResults)

\* A Join of the Samba realm with a password.
JoinSamba(i) ==
    /\ Arrives(i)
    /\ Join(i, Samba, [ret |-> 0, name |-> <<"h","o","s","t","1">>],
            [kind |-> "password", wellformed |-> TRUE], NoOptions)
    /\ call' = NoCall

NextDiscoverLocked ==
    \/ DiscoverSamba
    \/ SambaDiscovered
    \/ \E i \in Ids :
          \/ JoinSamba(i)
          \/ OnEnrollComplete(i)
          \/ OnNameCachesFlush(i)
          \/ Cancel(i)

SpecDiscoverLocked == InitLogins /\ [][NextDiscoverLocked]_vars

(* ------------------- a back-end that joins and leaves ------------------ *)

\* The callback of invocation i ran and left frame d, the realm's properties
\* being properties by then.
Completed(d, properties) ==
    /\ invocations' = [invocations EXCEPT ![d.id] = d.v]
    /\ current_invocation' = d.lock
    /\ crashed' = d.crashed
    /\ realm_iface' = properties
    /\ UNCHANGED <<install_mode, kinit, discoveries, registry, keytab>>

\* The back-end's join succeeds: it marks the realm as configured and completes
\* its result, and join_finish reports success to on_enroll_complete.
BackendJoin(i) ==
    /\ InFlight(i, {"Join"}, "dispatched")
    /\ LET self == invocations[i].closure.self
       IN Completed(on_enroll_complete(Frame(i), NoError, install_mode),
                    [realm_iface EXCEPT ![self] = realm_kerberos_set_configured(@, TRUE)])
    /\ call' = [what |-> "BackendJoin", id |-> i, cancelled |-> invocations[i].cancelled]

\* The back-end's leave succeeds: it marks the realm as not configured and
\* completes its result.
BackendLeave(i) ==
    /\ InFlight(i, {"Leave", "Deconfigure"}, "dispatched")
    /\ LET self == invocations[i].closure.self
       IN Completed(on_unenroll_complete(Frame(i), NoError),
                    [realm_iface EXCEPT ![self] = realm_kerberos_set_configured(@, FALSE)])
    /\ call' = [what |-> "BackendLeave", id |-> i, cancelled |-> invocations[i].cancelled]

NextEndToEnd ==
    \E i \in Ids :
        \/ JoinSamba(i)
        \/ BackendJoin(i)
        \/ OnEnrollComplete(i)
        \/ OnNameCachesFlush(i)
        \/ Cancel(i)

\* Every name-cache flush in flight eventually invokes its callback.
SpecEndToEnd ==
    Init /\ [][NextEndToEnd]_vars /\ \A i \in Ids : WF_vars(OnNameCachesFlush(i))

(* ------------- everything that touches a realm's properties ------------ *)

\* One Discover call to the Samba provider.
DiscoverOnce ==
    /\ discoveries = << >>
    /\ Discover(1)

\* Calls of the four methods, a back-end that succeeds at joining and leaving
\* and changes the logins, and a discovery.
NextRealm ==
    \/ \E i \in Ids :
          \/ MethodCall(i)
          \/ BackendJoin(i)
          \/ BackendLeave(i)
          \/ BackendLogins(i)
          \/ OnNameCachesFlush(i)
          \/ OnLoginsComplete(i)
    \/ DiscoverOnce
    \/ SambaDiscovered

SpecRealm == InitLogins /\ [][NextRealm]_vars

(* ------------ the policy string over all short strings ----------------- *)

\* Longest login_policy string tried, in symbols.
MaxPolicyLen == 4

PolicySymbols == {"any", "realm", "permitted", "deny", "bogus"} \cup Delimiters

PolicyStrings == UNION {[1..n -> PolicySymbols] : n \in 0..MaxPolicyLen}

InitPolicy ==
    /\ invocations = [i \in Ids |-> NewInvocation]
    /\ current_invocation = NoInvocation
    /\ install_mode = FALSE
    /\ crashed = FALSE
    /\ realm_iface = [self \in {r.name : r \in Realms} |-> NewRealmIface]
    /\ kinit = NoKinit
    /\ discoveries = << >>
    /\ registry = << >>
    /\ keytab = NewKeytab(<< >>)
    /\ call \in [what : {"policy"}, login_policy : PolicyStrings]

\* The first invocation is a ChangeLoginPolicy of the Samba realm with the
\* drawn string.
CheckPolicy ==
    /\ Arrives(1)
    /\ Apply(handle_change_login_policy(Started(1, "ChangeLoginPolicy"), Samba,
                                        call.login_policy))
    /\ UNCHANGED call

SpecPolicy == InitPolicy /\ [][CheckPolicy]_vars

(* ------------- the Join handler with its arguments recorded ------------ *)

RecordedJoin(i) ==
    /\ Arrives(i)
    /\ \E self \in Realms, hostname \in HostNames,
          credentials \in CredentialWires, options \in Options :
          /\ Join(i, self, hostname, credentials, options)
          /\ call' = [what |-> "Join", id |-> i, self |-> self, hostname |-> hostname,
                      credentials |-> credentials, lock |-> current_invocation]

NextJoin ==
    \E i \in Ids :
        \/ RecordedJoin(i)
        \/ OnEnrollComplete(i)
        \/ OnNameCachesFlush(i)
        \/ Cancel(i)

SpecJoin == Init /\ [][NextJoin]_vars

(* ------ Join, Leave and Deconfigure with their arguments recorded ------ *)

RecordedLeave(i) ==
    /\ Arrives(i)
    /\ \E self \in Realms, credentials \in CredentialWires, options \in Options :
          /\ REALM_KERBEROS_MEMBERSHIP_GET_IFACE(self).membership
          /\ \E d \in handle_leave(Started(i, "Leave"), self, credentials, options) :
                Apply(d)
          /\ call' = [what |-> "Leave", id |-> i, self |-> self,
                      credentials |-> credentials, options |-> options,
                      lock |-> current_invocation]

RecordedDeconfigure(i) ==
    /\ Arrives(i)
    /\ \E self \in Realms, options \in Options :
          /\ \E d \in handle_deconfigure(Started(i, "Deconfigure"), self, options) :
                Apply(d)
          /\ call' = [what |-> "Deconfigure", id |-> i, self |-> self,
                      options |-> options, lock |-> current_invocation]

NextLeave ==
    \E i \in Ids :
        \/ RecordedLeave(i)
        \/ OnUnenrollComplete(i)
        \/ Cancel(i)

SpecLeave == Init /\ [][NextLeave]_vars

NextMembership ==
    \E i \in Ids :
        \/ RecordedJoin(i)
        \/ RecordedLeave(i)
        \/ RecordedDeconfigure(i)
        \/ OnEnrollComplete(i)
        \/ OnNameCachesFlush(i)
        \/ OnUnenrollComplete(i)
        \/ Cancel(i)

SpecMembership == Init /\ [][NextMembership]_vars

(* ------- Join and Leave competing with a cancelled invocation ---------- *)

NextCancel ==
    \E i \in Ids :
        \/ RecordedJoin(i)
        \/ RecordedLeave(i)
        \/ OnEnrollComplete(i)
        \/ OnNameCachesFlush(i)
        \/ OnUnenrollComplete(i)
        \/ Cancel(i)

SpecCancel == Init /\ [][NextCancel]_vars

(* ---------- the three membership handlers under a host name ----------- *)

\* Each handler runs on a machine whose gethostname() reports hostname; only
\* handle_join calls it.
HostNameJoin(i) ==
    /\ Arrives(i)
    /\ \E self \in {Samba, Kerberos}, hostname \in HostNamesNearLocalhost,
          credentials \in {DeconfigureCredential, [kind |-> "bogus", wellformed |-> TRUE]} :
          /\ Join(i, self, hostname, credentials, NoOptions)
          /\ call' = [what |-> "Join", id |-> i, self |-> self, hostname |-> hostname,
                      credentials |-> credentials, lock |-> current_invocation]

HostNameLeave(i) ==
    /\ Arrives(i)
    /\ \E self \in {Samba, Kerberos}, hostname \in HostNamesNearLocalhost,
          credentials \in {DeconfigureCredential, [kind |-> "bogus", wellformed |-> TRUE]} :
          /\ REALM_KERBEROS_MEMBERSHIP_GET_IFACE(self).membership
          /\ \E d \in handle_leave(Started(i, "Leave"), self, credentials, NoOptions) :
                Apply(d)
          /\ call' = [what |-> "Leave", id |-> i, self |-> self, hostname |-> hostname,
                      credentials |-> credentials, lock |-> current_invocation]

HostNameDeconfigure(i) ==
    /\ Arrives(i)
    /\ \E self \in {Samba, Kerberos}, hostname \in HostNamesNearLocalhost :
          /\ \E d \in handle_deconfigure(Started(i, "Deconfigure"), self, NoOptions) :
                Apply(d)
          /\ call' = [what |-> "Deconfigure", id |-> i, self |-> self,
                      hostname |-> hostname, credentials |-> DeconfigureCredential,
                      lock |-> current_invocation]

NextHostName ==
    \E i \in Ids :
        \/ HostNameJoin(i)
        \/ HostNameLeave(i)
        \/ HostNameDeconfigure(i)

SpecHostName == InitLogins /\ [][NextHostName]_vars

(* -------- the completion of Join with its results recorded ------------- *)

RecordedEnrollComplete(i) ==
    /\ InFlight(i, {"Join"}, "dispatched")
    /\ \E result \in BackendResults :
          /\ Apply(on_enroll_complete(Frame(i), result, install_mode))
          /\ call' = [what |-> "on_enroll_complete", id |-> i, result |-> result,
                      cancelled |-> invocations[i].cancelled]

RecordedNameCachesFlush(i) ==
    /\ InFlight(i, {"Join"}, "flushing")
    /\ \E status \in {0, 1} :
          /\ Apply(on_name_caches_flush(Frame(i), status))
          /\ call' = [what |-> "on_name_caches_flush", id |-> i, status |-> status]

NextFlush ==
    \E i \in Ids :
        \/ HandleJoin(i)
        \/ RecordedEnrollComplete(i)
        \/ RecordedNameCachesFlush(i)
        \/ Cancel(i)

SpecFlush == Init /\ [][NextFlush]_vars

(* ------------- the completion callbacks with their results ------------- *)

RecordedUnenrollComplete(i) ==
    /\ InFlight(i, {"Leave", "Deconfigure"}, "dispatched")
    /\ \E result \in BackendResults :
          /\ Apply(on_unenroll_complete(Frame(i), result))
          /\ call' = [what |-> "on_unenroll_complete", id |-> i, result |-> result,
                      cancelled |-> invocations[i].cancelled]

RecordedLoginsComplete(i) ==
    /\ InFlight(i, {"ChangeLoginPolicy"}, "dispatched")
    /\ \E result \in LoginsResults :
          /\ Apply(on_logins_complete(Frame(i), result))
          /\ call' = [what |-> "on_logins_complete", id |-> i, result |-> result.error,
                      cancelled |-> invocations[i].cancelled]

NextReplies ==
    \E i \in Ids :
        \/ MethodCall(i)
        \/ RecordedEnrollComplete(i)
        \/ OnNameCachesFlush(i)
        \/ RecordedUnenrollComplete(i)
        \/ RecordedLoginsComplete(i)
        \/ Cancel(i)

SpecReplies == InitLogins /\ [][NextReplies]_vars

(* ------------- the support check over all back-end lists --------------- *)

\* Longest supported-credentials array tried.
MaxListLen == 2

SupportedLists ==
    {NullList} \cup
    {List(types) : types \in UNION {[1..n -> CredentialTypes] : n \in 0..MaxListLen}}

\* A back-end with every entry point set and the given credential arrays.
BackEndWith(joins, leaves) ==
    [Samba EXCEPT !.name = "any",
                  !.join_creds_supported = joins,
                  !.leave_creds_supported = leaves]

InitSupport ==
    /\ invocations = [i \in Ids |-> NewInvocation]
    /\ current_invocation = NoInvocation
    /\ install_mode = FALSE
    /\ crashed = FALSE
    /\ realm_iface = [self \in {r.name : r \in Realms} |-> NewRealmIface]
    /\ kinit = NoKinit
    /\ discoveries = << >>
    /\ registry = << >>
    /\ keytab = NewKeytab(<< >>)
    /\ call \in [what : {"support"},
                 self : {BackEndWith(joins, leaves) :
                            joins \in SupportedLists, leaves \in SupportedLists},
                 type : CredentialTypes,
                 join : BOOLEAN]

\* The first invocation is a Join or Leave of the drawn back-end with a
\* well-formed credential of the drawn type, past the capability check and the
\* parse.
CheckSupport ==
    /\ Arrives(1)
    /\ \E d \in join_or_leave(Started(1, IF call.join THEN "Join" ELSE "Leave"),
                              call.self, [kind |-> call.type, wellformed |-> TRUE],
                              {}, [computer_ou |-> FALSE, assume_packages |-> FALSE],
                              call.join) :
          Apply(d)
    /\ UNCHANGED call

SpecSupport == InitSupport /\ [][CheckSupport]_vars

(* ------------------------------ properties ----------------------------- *)

\* The invocations with a back-end call or the name-cache flush in flight.
Dispatched == {i \in Ids : invocations[i].pc \in {"dispatched", "flushing"}}

\* The handler exits that reject the call on its arguments or on the realm's
\* capabilities.
PreconditionExits ==
    {"hostname", "capability", "parse", "support", "computer_ou",
     "policy_unknown", "policy_conflict"}

\* The step is the handler of invocation i running from entry to return.
HandlerRuns(i) == invocations[i].pc = "idle" /\ invocations'[i].pc # "idle"

CancelledReply ==
    GError("REALM_ERROR", "REALM_ERROR_CANCELLED", "Operation was cancelled.")

\* C11: when on_enroll_complete ends with no error (the token has not fired and
\* the back-end's join_finish reported success), outside install mode the flush
\* is in flight and nothing has been replied or unlocked, and in install mode
\* success is replied at once with no flush; with an error the error is replied
\* and no flush runs. The flush callback replies success whatever its status,
\* a failed flush only adding a diagnostics message.
C11_FlushAfterJoin ==
    /\ call.what = "on_enroll_complete" =>
          LET v == invocations[call.id]
              error == IF call.cancelled THEN Cancelled ELSE call.result
          IN /\ (error = NoError /\ ~install_mode) =>
                    v.pc = "flushing" /\ v.replies = << >> /\ v.unlocks = 0
             /\ (error = NoError /\ install_mode) =>
                    v.pc = "done" /\ v.replies = <<EmptyReply>>
             /\ error # NoError =>
                    v.pc = "done" /\ Len(v.replies) = 1 /\ v.replies[1] # EmptyReply
    /\ call.what = "on_name_caches_flush" =>
          LET v == invocations[call.id]
              logged == \E k \in DOMAIN v.diag :
                           v.diag[k] = <<"error", "Flushing name caches failed">>
          IN /\ v.pc = "done"
             /\ v.replies = <<EmptyReply>>
             /\ v.unlocks = 1
             /\ logged <=> call.status # 0

C11_Witness ==
    /\ call.what = "on_name_caches_flush"
    /\ call.status = 1
    /\ invocations[call.id].replies = <<EmptyReply>>
    /\ \E k \in DOMAIN invocations[call.id].diag :
          invocations[call.id].diag[k] = <<"error", "Flushing name caches failed">>

\* C12: once an invocation has finished, no credential it parsed is still
\* referenced, and none was released more often than it was parsed.
C12_CredentialReleased ==
    \A i \in Ids :
        /\ invocations[i].creds >= 0
        /\ (invocations[i].pc = "done" /\ ~crashed) => invocations[i].creds = 0

OuRejected ==
    GError("G_DBUS_ERROR", "G_DBUS_ERROR_INVALID_ARGS",
           "The computer-ou argument is not supported when leaving a domain.")

\* C13: a Leave whose options carry a computer-ou entry is answered with the
\* InvalidArgument error of the option check, whatever the realm's leave
\* capability, the credential and the lock are, and nothing is parsed, locked
\* or dispatched.
C13_LeaveRejectsOu ==
    (call.what = "Leave" /\ call.options.computer_ou) =>
        LET v == invocations[call.id]
        IN /\ v.pc = "done"
           /\ v.exit = "computer_ou"
           /\ v.replies = <<OuRejected>>
           /\ v.creds = 0
           /\ v.acquired = 0
           /\ v.async_calls = 0
           /\ current_invocation = call.lock

C13_Witness ==
    /\ call.what = "Leave"
    /\ call.options.computer_ou
    /\ ~call.self.leave_async
    /\ ~call.credentials.wellformed
    /\ call.lock # NoInvocation
    /\ invocations[call.id].replies = <<OuRejected>>

\* C14: every Deconfigure step is a step that Leave with the automatic
\* credential and the same options takes from the same state on the same realm
\* object: the same reply, the same effect on the lock, the same dispatch.
C14_DeconfigureIsLeave ==
    [][call'.what = "Deconfigure" =>
         \E d \in handle_leave(Started(call'.id, "Deconfigure"), call'.self,
                               DeconfigureCredential, call'.options) :
            /\ invocations'[call'.id] = d.v
            /\ current_invocation' = d.lock
            /\ crashed' = d.crashed]_vars

\* C15: a call on a realm object with no entry point for its direction (no
\* membership interface, or no join_async for Join, no leave_async for Leave
\* and Deconfigure) that passes the checks made before the capability check
\* is answered NotSupported by the capability check, with nothing parsed,
\* locked or dispatched.
C15_NoEntryPointIsNotSupported ==
    LET iface == REALM_KERBEROS_MEMBERSHIP_GET_IFACE(call.self)
        join == call.what = "Join"
        missing == \/ ~iface.membership
                   \/ (join /\ ~iface.join_async)
                   \/ (~join /\ ~iface.leave_async)
        reaches == CASE call.what = "Join" -> ~HostNameNotSet(call.hostname)
                     [] call.what = "Leave" -> ~call.options.computer_ou
                     [] OTHER -> TRUE
    IN (call.what \in {"Join", "Leave", "Deconfigure"} /\ reaches /\ missing) =>
          LET v == invocations[call.id]
          IN /\ ~crashed
             /\ v.exit = "capability"
             /\ Len(v.replies) = 1
             /\ v.replies[1].code = "G_DBUS_ERROR_NOT_SUPPORTED"
             /\ v.creds = 0
             /\ v.acquired = 0
             /\ v.async_calls = 0

\* The tokens of a policy string as a caller writes them: the maximal runs of
\* symbols between delimiters. A recognized token is one of the four policy
\* names standing alone between delimiters; every other symbol that is not a
\* delimiter belongs to an unrecognized token.
PolicyNames ==
    {REALM_DBUS_LOGIN_POLICY_ANY, REALM_DBUS_LOGIN_POLICY_REALM,
     REALM_DBUS_LOGIN_POLICY_PERMITTED, REALM_DBUS_LOGIN_POLICY_DENY}

RecognizedTokens(string) ==
    {k \in DOMAIN string :
        /\ string[k] \in PolicyNames
        /\ (k = 1 \/ string[k - 1] \in Delimiters)
        /\ (k = Len(string) \/ string[k + 1] \in Delimiters)}

UnrecognizedToken(string) ==
    \E k \in DOMAIN string :
        string[k] \notin Delimiters /\ k \notin RecognizedTokens(string)

InvalidPolicy ==
    GError("G_DBUS_ERROR", "G_DBUS_ERROR_INVALID_ARGS",
           "Invalid or unknown login_policy argument")

ConflictingPolicy ==
    GError("G_DBUS_ERROR", "G_DBUS_ERROR_INVALID_ARGS",
           "Conflicting flags in login_policy argument")

\* C16: a policy string with two or more recognized tokens (and no
\* unrecognized one), however they are separated, is rejected with the
\* 'conflicting flags' InvalidArgument error; a policy string with an
\* unrecognized token is rejected with the 'invalid or unknown' one.
C16_PolicyTokenErrors ==
    (call.what = "policy" /\ invocations[1].pc # "idle") =>
        LET v == invocations[1]
            string == call.login_policy
        IN /\ (Cardinality(RecognizedTokens(string)) >= 2 /\ ~UnrecognizedToken(string)) =>
                 v.replies = <<ConflictingPolicy>>
           /\ UnrecognizedToken(string) => v.replies = <<InvalidPolicy>>

\* C17 (as claimed): the lock and the back-end are reached only when exactly
\* one recognized token is present in the policy string.
C17_ExactlyOneToken ==
    (call.what = "policy" /\ invocations[1].pc # "idle") =>
        ((invocations[1].acquired >= 1 \/ invocations[1].async_calls >= 1) =>
            Cardinality(RecognizedTokens(call.login_policy)) = 1)

\* C17 (amended): the lock and the back-end are reached only when the policy
\* string has no unrecognized token and at most one recognized token: exactly
\* one, whose policy is handed to the back-end, or none in the empty string,
\* which is dispatched with the policy not set. A non-empty string with no
\* recognized token is never dispatched.
C17_AtMostOneToken ==
    (call.what = "policy" /\ invocations[1].pc # "idle") =>
        LET v == invocations[1]
            string == call.login_policy
            recognized == RecognizedTokens(string)
        IN (v.acquired >= 1 \/ v.async_calls >= 1) =>
              /\ ~UnrecognizedToken(string)
              /\ Cardinality(recognized) <= 1
              /\ recognized = {} =>
                    string = << >> /\ v.policy = "REALM_KERBEROS_POLICY_NOT_SET"
              /\ \A k \in recognized :
                    realm_kerberos_login_policy_to_string(v.policy) = string[k]

C17_Witness ==
    /\ call.what = "policy"
    /\ call.login_policy = << >>
    /\ invocations[1].exit = "dispatched"
    /\ invocations[1].async_calls = 1
    /\ invocations[1].policy = "REALM_KERBEROS_POLICY_NOT_SET"

\* C18: a ChangeLoginPolicy answered Busy or InvalidArgument leaves the stored
\* login policy and permitted logins of every realm as they were and calls no
\* back-end entry point; whenever the stored values change, it is at the hands
\* of a ChangeLoginPolicy that holds the lock and has not been answered.
C18_RejectedChangesNothing ==
    [][/\ \A i \in Ids :
            (/\ HandlerRuns(i)
             /\ invocations'[i].method = "ChangeLoginPolicy"
             /\ \E k \in DOMAIN invocations'[i].replies :
                   invocations'[i].replies[k].code \in
                      {"REALM_ERROR_BUSY", "G_DBUS_ERROR_INVALID_ARGS"}) =>
                /\ realm_iface' = realm_iface
                /\ invocations'[i].async_calls = 0
                /\ invocations'[i].pc = "done"
       /\ realm_iface' # realm_iface =>
            \E i \in Ids :
                /\ invocations[i].method = "ChangeLoginPolicy"
                /\ invocations[i].replies = << >>
                /\ current_invocation = i]_vars

C18_Witness ==
    \E i, j \in Ids :
        /\ invocations[i].pc = "dispatched"
        /\ realm_iface["samba"] =
              [login_policy |-> REALM_DBUS_LOGIN_POLICY_PERMITTED,
               permitted_logins |-> <<"user">>, configured |-> ""]
        /\ invocations[j].exit = "busy"
        /\ invocations[j].method = "ChangeLoginPolicy"
        /\ invocations[j].async_calls = 0

\* C19: once the result of a ticket acquisition is destroyed, the cache file is
\* on disk iff the acquisition succeeded and finish returned its path; a file
\* that is left has owner-only read/write permission.
C19_CacheFileHygiene ==
    (kinit.pc = "destroyed") =>
        LET returned == \E n \in DOMAIN kinit.returns :
                           kinit.returns[n].filename = "cache"
        IN /\ kinit.file # "absent" <=> (kinit.outcome.step = "none" /\ returned)
           /\ kinit.file \in {"absent", "S_IRUSR | S_IWUSR"}

C19_Witness ==
    /\ kinit.pc = "destroyed"
    /\ kinit.outcome.step = "krb5_get_init_creds_password"
    /\ Len(kinit.returns) = 1
    /\ kinit.file = "absent"

\* C20: every finish call after the first on the same result returns no path
\* and an Internal error.
C20_SecondFinishRejected ==
    (kinit.pc \in {"complete", "destroyed"}) =>
        \A n \in DOMAIN kinit.returns :
            n >= 2 =>
                /\ kinit.returns[n].filename = "NULL"
                /\ kinit.returns[n].error.code = "REALM_ERROR_INTERNAL"

AuthFailed == "REALM_ERROR_AUTH_FAILED"

\* C21: the first finish of a failed ticket acquisition returns no path and an
\* error, which is AuthFailed iff the failure is one of the six Kerberos codes
\* for a rejected credential; a failure of context initialization, principal
\* parsing, cache file creation or cache resolution, and every other library
\* code, gives an error that is not AuthFailed.
C21_AuthFailedIffCredentialCode ==
    (kinit.pc \in {"complete", "destroyed"} /\ kinit.returns # << >>
        /\ kinit.outcome.step # "none") =>
        LET first == kinit.returns[1]
            rejected ==
                kinit.outcome.code \in
                    {"KRB5KDC_ERR_PREAUTH_FAILED", "KRB5KDC_ERR_C_PRINCIPAL_UNKNOWN",
                     "KRB5KDC_ERR_KEY_EXP", "KRB5KDC_ERR_CLIENT_REVOKED",
                     "KRB5KDC_ERR_POLICY", "KRB5KDC_ERR_ETYPE_NOSUPP"}
        IN /\ first.filename = "NULL"
           /\ first.error # NoError
           /\ first.error.code = AuthFailed <=> rejected
           /\ kinit.outcome.step \in {"krb5_init_context", "krb5_parse_name",
                                      "g_mkstemp_full", "krb5_cc_resolve"} =>
                 first.error.code # AuthFailed

C21_Witness ==
    /\ kinit.pc = "complete"
    /\ kinit.outcome = [step |-> "krb5_get_init_creds_password",
                        code |-> "KRB5KDC_ERR_ETYPE_NOSUPP"]
    /\ Len(kinit.returns) = 1
    /\ kinit.returns[1].error.code = AuthFailed
    /\ kinit.returns[1].filename = "NULL"

\* C22: the authorization oracle is asked about every Join, Leave, Deconfigure
\* and ChangeLoginPolicy call before its handler runs, and a handler runs only
\* on the answer TRUE; on FALSE the call is answered NotAuthorized and nothing
\* else happens: no credential is parsed, the lock is not acquired, no back-end
\* entry point is called, and the lock and every realm's properties are as
\* before.
C22_AuthorizedBeforeHandler ==
    [][\A i \in Ids :
         HandlerRuns(i) =>
            /\ call'.what = "authorize" /\ call'.id = i
            /\ invocations'[i].method \in MutatingMethods
            /\ invocations'[i].exit # "not_authorized" <=> call'.authorized
            /\ ~call'.authorized =>
                  /\ invocations'[i].pc = "done"
                  /\ invocations'[i].replies = <<NotAuthorizedReply>>
                  /\ invocations'[i].creds = 0
                  /\ invocations'[i].acquired = 0
                  /\ invocations'[i].unlocks = 0
                  /\ invocations'[i].async_calls = 0
                  /\ invocations'[i].closure = NoClosure
                  /\ current_invocation' = current_invocation
                  /\ realm_iface' = realm_iface
                  /\ \A j \in Ids \ {i} : invocations'[j] = invocations[j]]_vars

C22_Witness ==
    \E i, j \in Ids :
        /\ invocations[i].method = "Join"
        /\ invocations[i].exit = "not_authorized"
        /\ invocations[i].replies = <<NotAuthorizedReply>>
        /\ invocations[j].method = "ChangeLoginPolicy"
        /\ invocations[j].pc = "dispatched"
        /\ current_invocation = j
        /\ call = [what |-> "authorize", id |-> i, authorized |-> FALSE]

\* The priorities the providers of a discovery reported, in registration order.
Priorities(v) == [p \in DOMAIN v.results |-> v.results[p].priority]

\* C23: a Discover call in which some provider reported a non-zero priority is
\* answered with the realm of the provider that has the highest priority and,
\* among those with the highest priority, was registered first, in whatever
\* order the providers completed: priorities 50, 100, 50 give the second
\* provider, and 70, 70 followed by no higher one give the first.
C23_DiscoveryDeterminism ==
    \A k \in DOMAIN discoveries :
        LET v == discoveries[k]
            w == v.reply.winner
        IN (v.pc = "done" /\ \E p \in DOMAIN v.results : v.results[p].priority > 0) =>
              /\ v.reply.code = "OK"
              /\ w \in DOMAIN v.results
              /\ \A q \in DOMAIN v.results :
                    /\ v.results[q].priority <= v.results[w].priority
                    /\ q < w => v.results[q].priority < v.results[w].priority
              /\ v.reply.realms = v.results[w].realms
              /\ SubSeq(Priorities(v), 1, 3) = <<50, 100, 50>> => w = 2
              /\ (/\ SubSeq(Priorities(v), 1, 2) = <<70, 70>>
                  /\ \A q \in DOMAIN v.results : v.results[q].priority <= 70) => w = 1

C23_Witness ==
    /\ discoveries # << >>
    /\ discoveries[1].pc = "done"
    /\ SubSeq(Priorities(discoveries[1]), 1, 3) = <<70, 70, 50>>
    /\ discoveries[1].order[1] = 2
    /\ discoveries[1].reply.winner = 1

\* C24: a Discover call in which every provider reported priority 0 is
\* answered DiscoveryFailed with no realm, carrying the error of the provider
\* that was the first to report one (no error when none did); a call answered
\* with success carries a realm. The Samba provider reports priority 0 and no
\* realm when its discovery collaborator gives no name, whether with an error
\* or not, and when the realm cannot be registered.
C24_NoSilentEmptySuccess ==
    /\ \A k \in DOMAIN discoveries :
          LET v == discoveries[k]
              errors == {j \in DOMAIN v.order : v.results[v.order[j]].error # NoError}
          IN v.pc = "done" =>
                /\ v.reply.code = "OK" => v.reply.realms # << >>
                /\ (\A p \in DOMAIN v.results : v.results[p].priority = 0) =>
                      /\ v.reply.code = "REALM_ERROR_DISCOVERY_FAILED"
                      /\ v.reply.realms = << >>
                      /\ errors = {} => v.reply.error = NoError
                      /\ \A j \in errors :
                            (\A i \in errors : j <= i) =>
                                v.reply.error = v.results[v.order[j]].error
    /\ \A ad_result \in AdResults, registered \in BOOLEAN, is_default \in BOOLEAN :
          LET r == realm_samba_provider_discover_finish(ad_result, registered, is_default)
          IN (ad_result.name = "NULL" \/ ad_result.error # NoError \/ ~registered) =>
                r.priority = 0 /\ r.realms = << >>

C24_Witness ==
    /\ discoveries # << >>
    /\ discoveries[1].pc = "done"
    /\ discoveries[1].order[1] = 3
    /\ discoveries[1].results[3].error.domain = "REALM_LDAP_ERROR"
    /\ discoveries[1].results[2].error.domain = "G_RESOLVER_ERROR"
    /\ discoveries[1].results[1] = ProviderResult(0, << >>, NoError)
    /\ discoveries[1].reply =
          [code |-> "REALM_ERROR_DISCOVERY_FAILED", winner |-> 0, realms |-> << >>,
           error |-> GError("REALM_LDAP_ERROR", "LDAP_SERVER_DOWN", "ldap")]

\* C25: a Discover call is started, and its providers complete, whoever holds
\* the daemon lock: such a step leaves the lock and every invocation as they
\* were, no Discover call is answered Busy, and a call issued while the lock is
\* held is in flight like any other, next to other Discover calls.
C25_DiscoverIgnoresLock ==
    [][discoveries' # discoveries =>
          /\ current_invocation' = current_invocation
          /\ invocations' = invocations
          /\ \A k \in DOMAIN discoveries' :
                /\ discoveries'[k].reply # BusyReply
                /\ k \notin DOMAIN discoveries => discoveries'[k].pc = "running"]_vars

C25_Witness ==
    \E i \in Ids :
        /\ invocations[i].method = "Join"
        /\ invocations[i].pc = "dispatched"
        /\ current_invocation = i
        /\ Len(discoveries) = 2
        /\ discoveries[1].pc = "running"
        /\ discoveries[2].pc = "done"
        /\ discoveries[2].reply.code = "OK"

\* The info messages an invocation sent to the diagnostics sink.
Infos(v) == {k \in DOMAIN v.diag : v.diag[k][1] = "info"}

\* The end of a successful Join of the Samba realm.
JoinedSamba(i) ==
    /\ invocations[i].pc = "done"
    /\ invocations[i].replies = <<EmptyReply>>
    /\ Cardinality(Infos(invocations[i])) = 1
    /\ realm_iface["samba"].configured = "REALM_DBUS_KERBEROS_MEMBERSHIP_INTERFACE"
    /\ realm_kerberos_is_configured(realm_iface["samba"])
    /\ current_invocation = NoInvocation

\* C26: a Join of the Samba realm (join credentials password and ccache) with a
\* password credential whose back-end join reports success before any
\* cancellation leads to the end of the invocation with one success reply, one
\* info message, the realm's configured property set to the identifier and
\* reading as configured, and the lock not held by the invocation.
C26_JoinEndToEnd ==
    \A i \in Ids :
        (call = [what |-> "BackendJoin", id |-> i, cancelled |-> FALSE]) ~> JoinedSamba(i)

C26_Witness ==
    \E i \in Ids :
        /\ JoinedSamba(i)
        /\ ~install_mode
        /\ invocations[i].async_calls = 1
        /\ invocations[i].finish_calls = 1
        /\ current_invocation = NoInvocation

\* C27: the login policy, the permitted logins and the configured property of
\* a realm change only in steps taken while a Join, Leave, Deconfigure or
\* ChangeLoginPolicy invocation holds the daemon lock with its back-end call in
\* flight and no other invocation has anything in flight, and only that
\* invocation's realm changes; a handler that returns without dispatching (a rejected call), the
\* start of a discovery and the completion of a provider's discovery leave
\* them as they are.
C27_RealmChangesUnderLock ==
    [][/\ realm_iface' # realm_iface =>
            \E i \in Ids :
                /\ current_invocation = i
                /\ invocations[i].method \in
                      {"Join", "Leave", "Deconfigure", "ChangeLoginPolicy"}
                /\ invocations[i].pc = "dispatched"
                /\ \A j \in Ids \ {i} : invocations[j].pc \in {"idle", "done"}
                /\ \A self \in DOMAIN realm_iface :
                      self # invocations[i].closure.self =>
                          realm_iface'[self] = realm_iface[self]
       /\ (\E i \in Ids : HandlerRuns(i)) => realm_iface' = realm_iface
       /\ discoveries' # discoveries => realm_iface' = realm_iface]_vars

C27_Witness ==
    /\ realm_iface["samba"] =
          [login_policy |-> REALM_DBUS_LOGIN_POLICY_PERMITTED,
           permitted_logins |-> <<"user">>,
           configured |-> "REALM_DBUS_KERBEROS_MEMBERSHIP_INTERFACE"]
    /\ current_invocation = NoInvocation
    /\ \E i, j \in Ids :
          /\ invocations[i].method = "Join"
          /\ invocations[j].method = "ChangeLoginPolicy"
    /\ \E k \in DOMAIN discoveries : discoveries[k].pc = "done"

\* The error kinds a caller may see.
PublicKinds ==
    {"G_DBUS_ERROR_INVALID_ARGS", "G_DBUS_ERROR_NOT_SUPPORTED", "REALM_ERROR_BUSY",
     "REALM_ERROR_NOT_AUTHORIZED", "REALM_ERROR_DISCOVERY_FAILED", "REALM_ERROR_FAILED",
     "REALM_ERROR_AUTH_FAILED", "REALM_ERROR_CANCELLED", "REALM_ERROR_INTERNAL"}

\* C28: every reply of Join, Leave, Deconfigure and ChangeLoginPolicy is the
\* empty reply or an error of a public kind. When a completion callback ends
\* with an error (the cancellation error if the token fired before a join or
\* leave completed, else the back-end's), an error of the public domains is
\* replied as it is, a cancellation error as Cancelled, and any other error as
\* Failed (join, leave) or Internal (login policy); the failure is sent to the
\* diagnostics sink as an error message.
C28_PublicErrorsOnly ==
    /\ \A i \in Ids : \A k \in DOMAIN invocations[i].replies :
          \/ invocations[i].replies[k] = EmptyReply
          \/ invocations[i].replies[k].code \in PublicKinds
    /\ call.what \in {"on_enroll_complete", "on_unenroll_complete", "on_logins_complete"} =>
          LET v == invocations[call.id]
              logins == call.what = "on_logins_complete"
              error == IF ~logins /\ call.cancelled THEN Cancelled ELSE call.result
              failed == error # NoError \/ (logins /\ v.replies # <<EmptyReply>>)
          IN failed =>
                /\ Len(v.replies) = 1
                /\ \E k \in DOMAIN v.diag : v.diag[k][1] = "error"
                /\ error.domain \in {"REALM_ERROR", "G_DBUS_ERROR"} => v.replies[1] = error
                /\ error = Cancelled =>
                      v.replies[1] = GError("REALM_ERROR", "REALM_ERROR_CANCELLED",
                                            "Operation was cancelled.")
                /\ (error.domain \notin {"REALM_ERROR", "G_DBUS_ERROR"} /\ error # Cancelled) =>
                      v.replies[1].code = IF logins THEN "REALM_ERROR_INTERNAL"
                                                    ELSE "REALM_ERROR_FAILED"

\* C29: when the back-end call of a ChangeLoginPolicy completes after the
\* invocation's cancellation token fired, the reply is Cancelled and the
\* invocation no longer holds the lock.
C29_CancelledLoginsReplyCancelled ==
    [][\A i \in Ids :
         (/\ invocations[i].pc = "dispatched"
          /\ invocations[i].method = "ChangeLoginPolicy"
          /\ invocations[i].cancelled
          /\ invocations'[i].pc # "dispatched") =>
            /\ invocations'[i].replies =
                  <<GError("REALM_ERROR", "REALM_ERROR_CANCELLED",
                           "Operation was cancelled.")>>
            /\ current_invocation' # i]_vars

\* C30: firing the cancellation token of a Join or Leave whose back-end call
\* is in flight changes neither the lock nor the replies; as long as the
\* back-end call has not completed the invocation holds the lock, has replied
\* nothing, and a call that arrives is not dispatched and replies Busy where it
\* reaches the lock; the completion callback then replies Cancelled and unlocks
\* after the reply.
C30_CancelKeepsLock ==
    [][\A i \in Ids :
         (/\ invocations[i].pc = "dispatched"
          /\ invocations[i].method \in {"Join", "Leave"}
          /\ invocations'[i].cancelled) =>
            /\ current_invocation = i
            /\ invocations[i].replies = << >>
            /\ invocations[i].unlocks = 0
            /\ invocations'[i].pc = "dispatched" =>
                  /\ current_invocation' = i
                  /\ invocations'[i].replies = << >>
                  /\ invocations'[i].unlocks = 0
                  /\ \A j \in Ids \ {i} :
                        HandlerRuns(j) =>
                           /\ invocations'[j].exit \in
                                 PreconditionExits \cup {"busy", "crash"}
                           /\ invocations'[j].exit = "busy" =>
                                 invocations'[j].replies = <<BusyReply>>
                           /\ invocations'[j].acquired = 0
                           /\ invocations'[j].async_calls = 0
            /\ invocations'[i].pc # "dispatched" =>
                  /\ invocations'[i].pc = "done"
                  /\ invocations'[i].replies = <<CancelledReply>>
                  /\ invocations'[i].late_replies = 0
                  /\ invocations'[i].unlocks = 1
                  /\ current_invocation' = NoInvocation]_vars

\* a Join or Leave has just replied Busy to the caller because a cancelled
\* Leave, still with the back-end, holds the lock
C30_Witness ==
    \E i, j \in Ids :
        /\ i # j
        /\ invocations[i].method = "Leave"
        /\ invocations[i].pc = "dispatched"
        /\ invocations[i].cancelled
        /\ current_invocation = i
        /\ invocations[i].replies = << >>
        /\ call.what \in {"Join", "Leave"}
        /\ call.id = j
        /\ call.lock = i
        /\ invocations[j].exit = "busy"
        /\ invocations[j].replies = <<BusyReply>>

\* C31: the completion of the back-end call of a Leave or Deconfigure ends the
\* invocation in that very step, with one reply followed by one unlock and the
\* lock free, whatever the result, the cancellation state and the daemon mode:
\* no name-cache flush is started.
C31_LeaveNeverFlushes ==
    [][\A i \in Ids :
         (/\ invocations[i].method \in {"Leave", "Deconfigure"}
          /\ invocations[i].pc = "dispatched"
          /\ invocations'[i].pc # "dispatched") =>
            /\ invocations'[i].pc = "done"
            /\ Len(invocations'[i].replies) = 1
            /\ invocations'[i].unlocks = 1
            /\ invocations'[i].late_replies = 0
            /\ current_invocation' = NoInvocation]_vars

\* outside install mode a Leave has succeeded and a Deconfigure has failed,
\* each answered and unlocked without a flush
C31_Witness ==
    /\ ~install_mode
    /\ \E i, j \in Ids :
          /\ invocations[i].method = "Leave"
          /\ invocations[i].pc = "done"
          /\ invocations[i].replies = <<EmptyReply>>
          /\ invocations[i].unlocks = 1
          /\ invocations[j].method = "Deconfigure"
          /\ invocations[j].pc = "done"
          /\ invocations[j].finish_calls = 1
          /\ invocations[j].replies # <<EmptyReply>>
          /\ invocations[j].unlocks = 1

\* The host name is one that Join must refuse: it could not be read, or it is
\* "localhost", or it begins with "localhost.", letter case aside.
Lower(name) == [k \in DOMAIN name |-> g_ascii_tolower(name[k])]

NotSetCorrectly(hostname) ==
    \/ hostname.ret < 0
    \/ Lower(hostname.name) = <<"l","o","c","a","l","h","o","s","t">>
    \/ /\ Len(hostname.name) >= 10
       /\ Lower(SubSeq(hostname.name, 1, 10)) = <<"l","o","c","a","l","h","o","s","t",".">>

HostNameReply ==
    GError("REALM_ERROR", "REALM_ERROR_FAILED",
           "This computer's host name is not set correctly.")

\* C32: a Join replies Failed "host name is not set correctly", and does
\* nothing else, exactly when the host name could not be read, is localhost or
\* begins with "localhost." (case-insensitively); a Leave or Deconfigure never
\* gives that reply, and one whose realm can leave, whose credential is
\* supported and which finds the lock free is dispatched under every host name.
C32_HostNameCheckJoinOnly ==
    /\ call.what = "Join" =>
          LET v == invocations[call.id]
          IN /\ NotSetCorrectly(call.hostname) <=> (v.replies = <<HostNameReply>>)
             /\ NotSetCorrectly(call.hostname) =>
                   /\ v.pc = "done"
                   /\ v.acquired = 0
                   /\ v.async_calls = 0
                   /\ v.creds = 0
    /\ call.what \in {"Leave", "Deconfigure"} =>
          LET v == invocations[call.id]
              iface == REALM_KERBEROS_MEMBERSHIP_GET_IFACE(call.self)
          IN /\ v.exit # "hostname"
             /\ \A k \in DOMAIN v.replies : v.replies[k] # HostNameReply
             /\ (/\ call.self = Samba
                 /\ call.credentials = DeconfigureCredential
                 /\ call.lock = NoInvocation) =>
                   /\ v.acquired = 1
                   /\ v.async_calls = 1

\* a Join was refused for the host name "LocalHost" after a Leave had been
\* dispatched
C32_Witness ==
    /\ call.what = "Join"
    /\ call.hostname = [ret |-> 0, name |-> <<"L","o","c","a","l","H","o","s","t">>]
    /\ invocations[call.id].replies = <<HostNameReply>>
    /\ \E j \in Ids \ {call.id} :
          /\ invocations[j].method = "Leave"
          /\ invocations[j].async_calls = 1
          /\ invocations[j].pc = "dispatched"

ContainsAt(string) == \E k \in DOMAIN string : string[k] = "@"

\* C33: the principal is the login name itself when the login name contains
\* '@', and the login name followed by '@' and the realm name when it does
\* not; it always contains '@' and begins with the login name.
C33_PrincipalOfLoginName ==
    call.what = "kinit_principal" =>
        /\ ContainsAt(call.name) => call.principal = call.name
        /\ ~ContainsAt(call.name) =>
              call.principal = call.name \o <<"@">> \o call.realm_name
        /\ ContainsAt(call.principal)
        /\ Len(call.principal) >= Len(call.name)
        /\ SubSeq(call.principal, 1, Len(call.name)) = call.name

\* the login name "u@R" was kept as it is
C33_Witness ==
    /\ call.what = "kinit_principal"
    /\ call.name = <<"u", "@", "R">>
    /\ call.realm_name = <<"A", "D">>
    /\ call.principal = <<"u", "@", "R">>

\* C34: the worker creates the cache file before it initializes the Kerberos
\* context and parses the principal: when it has finished, whatever library
\* call failed (the file creation itself aside), the cache file exists on disk
\* under the name the closure holds.
C34_CacheFileCreatedFirst ==
    (/\ kinit.pc = "complete"
     /\ kinit.returns = << >>
     /\ kinit.outcome.step # "g_mkstemp_full") =>
        /\ kinit.ccache_file = "cache"
        /\ kinit.file = "S_IRUSR | S_IWUSR"

C35_WitnessReturned ==
    /\ call.what = "kinit_thread"
    /\ call.caller = "returned"
    /\ call.worker = "working"
    /\ call.callbacks = 0
    /\ kinit.returns = << >>

RealmsOf(realms, name) ==
    { k \in DOMAIN realms : realms[k].name = Lower(name) }

\* C36: the registry never holds two realm objects for one normalized name and
\* never loses or renames one; a discovery that returns a realm returns the
\* object already registered for the name's domain when there is one, and
\* otherwise one new object registered under the normalized name; the object
\* returned carries the discovery data of this discovery and every other
\* object keeps its own; a discovery that returns no realm changes no
\* discovery data.
C36_OneRealmPerDomain ==
    [][/\ \A k, l \in DOMAIN registry' :
             registry'[k].name = registry'[l].name => k = l
       /\ Len(registry') >= Len(registry)
       /\ \A k \in DOMAIN registry : registry'[k].name = registry[k].name
       /\ call'.what = "discover_finish" =>
             IF call'.realm # 0
             THEN /\ RealmsOf(registry', call'.name) = {call'.realm}
                  /\ IF RealmsOf(registry, call'.name) # {}
                     THEN /\ RealmsOf(registry, call'.name) = {call'.realm}
                          /\ Len(registry') = Len(registry)
                     ELSE /\ call'.realm = Len(registry) + 1
                          /\ Len(registry') = Len(registry) + 1
                  /\ registry'[call'.realm].discovery = call'.discovery
                  /\ \A k \in DOMAIN registry \ {call'.realm} :
                        registry'[k].discovery = registry[k].discovery
             ELSE /\ \A k \in DOMAIN registry :
                        registry'[k].discovery = registry[k].discovery
                  /\ call'.priority = 0]_vars

\* the domain "ad", registered before "org" was, has been discovered as "AD":
\* the first of the two realm objects was returned and carries the discovery
\* data of this discovery
C36_Witness ==
    /\ call.what = "discover_finish"
    /\ call.name = <<"A","D">>
    /\ call.discovery = "discovery2"
    /\ call.realm = 1
    /\ Len(registry) = 2
    /\ registry[1] = [name |-> <<"a","d">>, discovery |-> "discovery2"]
    /\ registry[2] = [name |-> <<"o","r","g">>, discovery |-> "discovery1"]

\* The credential types a realm object advertises for joining or leaving.
Advertised(self, join) ==
    LET properties == realm_kerberos_constructed(self)
        list == IF join THEN properties.supported_join_credentials
                        ELSE properties.supported_leave_credentials
    IN {list[k] : k \in DOMAIN list}

\* C37: a Join or Leave that reaches the support check passes it iff the type
\* of its credential is among the types the realm object advertises for that
\* direction, and is otherwise rejected there with NotSupported.
C37_AdvertisedIffAccepted ==
    (call.what = "support" /\ invocations[1].pc # "idle") =>
        LET v == invocations[1]
        IN /\ call.type \in Advertised(call.self, call.join) <=>
                 (v.exit = "dispatched" /\ v.replies = << >>)
           /\ call.type \notin Advertised(call.self, call.join) <=>
                 (/\ v.exit = "support"
                  /\ Len(v.replies) = 1
                  /\ v.replies[1].code = "G_DBUS_ERROR_NOT_SUPPORTED")

\* a Leave with a ccache credential was rejected by a realm that advertises
\* ccache for joining only
C37_Witness ==
    /\ call.what = "support"
    /\ call.type = "ccache"
    /\ ~call.join
    /\ Advertised(call.self, TRUE) = {"ccache", "password"}
    /\ Advertised(call.self, FALSE) = {"automatic"}
    /\ invocations[1].exit = "support"

\* C38: a Join whose cancellation token fired while its name-cache flush was
\* running holds the lock and has replied nothing until the flush completes;
\* the flush callback then replies success, whatever the status of the flush,
\* and unlocks after the reply.
C38_CancelDuringFlushIsSuccess ==
    [][\A i \in Ids :
         (/\ invocations[i].pc = "flushing"
          /\ invocations[i].cancelled) =>
            /\ invocations[i].method = "Join"
            /\ invocations[i].finish_calls = 1
            /\ current_invocation = i
            /\ invocations[i].replies = << >>
            /\ invocations[i].unlocks = 0
            /\ invocations'[i].pc # "flushing" =>
                  /\ invocations'[i].pc = "done"
                  /\ invocations'[i].replies = <<EmptyReply>>
                  /\ invocations'[i].late_replies = 0
                  /\ invocations'[i].unlocks = 1
                  /\ current_invocation' = NoInvocation]_vars

\* the flush of a cancelled Join has just failed, and the Join has replied
\* success
C38_Witness ==
    /\ call.what = "on_name_caches_flush"
    /\ call.status = 1
    /\ invocations[call.id].cancelled
    /\ invocations[call.id].pc = "done"
    /\ invocations[call.id].replies = <<EmptyReply>>
    /\ invocations[call.id].unlocks = 1
    /\ current_invocation = NoInvocation

\* C39: login-policy names round-trip.  For each of the four policies, the
\* name realm_kerberos_login_policy_to_string gives it, passed to
\* ChangeLoginPolicy, parses to that same policy with exactly one token
\* counted, the call is not refused as unknown or conflicting, and that policy
\* is the one handed to the back-end when the call is dispatched; the four names
\* are pairwise distinct; NOT_SET has the empty name.
C39_PolicyNamesRoundTrip ==
    /\ \A p, q \in RealmKerberosLoginPolicy \ {"REALM_KERBEROS_POLICY_NOT_SET"} :
          p # q => realm_kerberos_login_policy_to_string(p)
                      # realm_kerberos_login_policy_to_string(q)
    /\ realm_kerberos_login_policy_to_string("REALM_KERBEROS_POLICY_NOT_SET") = ""
    /\ (/\ call.what = "policy_name"
        /\ call.policy # "REALM_KERBEROS_POLICY_NOT_SET")
       => LET parsed == ParsePolicies(
                            g_strsplit_set(LoginPolicyArgument(call.name)), 1,
                            "REALM_KERBEROS_POLICY_NOT_SET", 0)
              v == invocations[call.id]
          IN /\ ~parsed.unknown
             /\ parsed.policy = call.policy
             /\ parsed.policies_set = 1
             /\ v.exit \notin {"policy_unknown", "policy_conflict"}
             /\ v.exit = "dispatched" => v.policy = call.policy

\* The name of the permitted-logins policy was passed and that policy was
\* dispatched.
C39_Witness ==
    /\ call.what = "policy_name"
    /\ call.policy = "REALM_KERBEROS_ALLOW_PERMITTED_LOGINS"
    /\ call.name = REALM_DBUS_LOGIN_POLICY_PERMITTED
    /\ invocations[call.id].exit = "dispatched"
    /\ invocations[call.id].policy = "REALM_KERBEROS_ALLOW_PERMITTED_LOGINS"

\* The entries of the keytab whose principal is in the realm being flushed,
\* and the others.
InRealm(kt, entry) == entry.realm = kt.realm_name

OfOtherRealm(kt, entry) == entry.realm # kt.realm_name

MatchingEntries(kt) ==
    Cardinality({k \in DOMAIN kt.entries : InRealm(kt, kt.entries[k])})

\* C40: a keytab flush that returned success left no entry whose principal is
\* in the realm flushed, and left every entry of another realm in place.
C40_FlushedKeytabHasNoRealmEntry ==
    (keytab.pc = "done" /\ keytab.ret = "TRUE")
       => /\ MatchingEntries(keytab) = 0
          /\ SelectSeq(keytab.entries, LAMBDA e : OfOtherRealm(keytab, e))
                = SelectSeq(keytab.before, LAMBDA e : OfOtherRealm(keytab, e))

\* The same for the flushes whose scan ended at the end of the keytab, and for
\* every flush the entries of other realms stay as they were.
FlushedWhenEveryReadSucceeds ==
    /\ (keytab.pc = "done" /\ keytab.ret = "TRUE" /\ ~keytab.read_error)
          => MatchingEntries(keytab) = 0
    /\ keytab.pc # "none"
          => SelectSeq(keytab.entries, LAMBDA e : OfOtherRealm(keytab, e))
               = SelectSeq(keytab.before, LAMBDA e : OfOtherRealm(keytab, e))

\* A restart of the scan follows a removal: it starts from the beginning and
\* one matching entry fewer is left; no other step changes the keytab, unless
\* it is a removal after which the scan could not be restarted.
FlushRestartReducesMatching ==
    [][IF keytab'.restarts # keytab.restarts
       THEN /\ keytab'.restarts = keytab.restarts + 1
            /\ keytab'.cursor = 0
            /\ MatchingEntries(keytab') = MatchingEntries(keytab) - 1
       ELSE \/ keytab'.entries = keytab.entries
            \/ /\ keytab'.pc = "done"
               /\ keytab'.ret = "FALSE"
               /\ MatchingEntries(keytab') = MatchingEntries(keytab) - 1]_vars

\* A flush that entered its loop leaves it.
FlushKeytabTerminates == (keytab.pc = "scan") ~> (keytab.pc \in {"done", "crashed"})

\* C1: at most one invocation is dispatched to a back-end at any time.
C1_SingleFlight == Cardinality(Dispatched) <= 1

C1_Witness ==
    \E i, j \in Ids :
        /\ invocations[i].pc = "dispatched"
        /\ invocations[i].method = "Leave"
        /\ invocations[j].method = "Join"
        /\ invocations[j].exit = "busy"

\* C2: a call that arrives while the lock is held and is not rejected on its
\* arguments replies Busy, calls no back-end entry point, never unlocks, and
\* changes neither the lock nor any other invocation.
C2_BusyLeavesHolderAlone ==
    [][\A i \in Ids :
         (HandlerRuns(i) /\ current_invocation # NoInvocation) =>
            /\ invocations'[i].exit \in PreconditionExits \cup {"busy", "crash"}
            /\ invocations'[i].exit = "busy" => invocations'[i].replies = <<BusyReply>>
            /\ invocations'[i].async_calls = 0
            /\ invocations'[i].unlocks = 0
            /\ invocations'[i].acquired = 0
            /\ current_invocation' = current_invocation
            /\ \A j \in Ids \ {i} : invocations'[j] = invocations[j]]_vars

C2_Witness ==
    \E i, j \in Ids :
        /\ i < j
        /\ invocations[j].exit = "busy"
        /\ invocations[j].replies = <<BusyReply>>
        /\ invocations[i].pc = "done"
        /\ invocations[i].replies = <<EmptyReply>>
        /\ invocations[i].unlocks = 1
        /\ current_invocation = NoInvocation

\* C3: the lock is free once the operation that took it has returned or
\* replied: the lock is never held with no operation in flight.
C3_LockFreeAfterReply ==
    ~crashed => \A i \in Ids : invocations[i].pc = "done" => current_invocation # i

\* C4: unlock is called exactly once per lock acquisition, by the holder only.
C4_UnlockExactlyOnce ==
    \A i \in Ids :
        /\ invocations[i].unlocks <= invocations[i].acquired
        /\ invocations[i].stray_unlocks = 0
        /\ (invocations[i].pc = "done" /\ ~crashed) =>
              invocations[i].unlocks = invocations[i].acquired

\* C5: with every completion callback eventually invoked, an invocation that
\* acquired the lock eventually has its reply and no longer holds the lock (or
\* the daemon died), so a later caller is not answered Busy forever.
C5_NeverWedged ==
    \A i \in Ids :
        (invocations[i].acquired > 0) ~>
            \/ crashed
            \/ /\ Len(invocations[i].replies) >= 1
               /\ current_invocation # i

\* C6: the support check of join_or_leave lets a credential through iff its
\* type is in the back-end's list for the direction (an absent list holds
\* nothing); otherwise the call fails with NotSupported and a message that no
\* other (type, direction) pair gets.
C6_SupportedIffListed ==
    (call.what = "support" /\ invocations[1].pc # "idle") =>
        LET v == invocations[1]
            supported == IF call.join THEN call.self.join_creds_supported
                                      ELSE call.self.leave_creds_supported
            listed == /\ ~supported.null
                      /\ call.type \in {supported.types[k] : k \in DOMAIN supported.types}
        IN /\ listed <=> v.exit = "dispatched"
           /\ ~listed =>
                /\ v.exit = "support"
                /\ Len(v.replies) = 1
                /\ v.replies[1].code = "G_DBUS_ERROR_NOT_SUPPORTED"
                /\ \A type \in CredentialTypes, join \in BOOLEAN :
                      (type # call.type \/ join # call.join) =>
                          v.replies[1].message # UnsupportedMessage(type, join)

C6_Witness ==
    /\ call.what = "support"
    /\ call.type = "secret"
    /\ ~call.join
    /\ call.self.join_creds_supported = List(<<"secret">>)
    /\ call.self.leave_creds_supported = List(<<"password", "automatic">>)
    /\ invocations[1].exit = "support"
    /\ invocations[1].replies[1].message =
          "Unenrolling this realm using a secret is not supported"

\* C7: Join checks host name, join capability, credential parse, credential
\* support and the lock in this order, and replies the error of the first
\* check that fails: Failed, NotSupported, InvalidArgument, NotSupported, Busy.
C7_FirstFailingCheckWins ==
    call.what = "Join" =>
        LET v == invocations[call.id]
            iface == REALM_KERBEROS_MEMBERSHIP_GET_IFACE(call.self)
            a == HostNameNotSet(call.hostname)
            b == ~iface.join_async
            c == ~(call.credentials.kind \in CredentialTypes /\ call.credentials.wellformed)
            d == /\ ~c
                 /\ \/ iface.join_creds_supported.null
                    \/ call.credentials.kind \notin
                          {iface.join_creds_supported.types[k] :
                              k \in DOMAIN iface.join_creds_supported.types}
            e == call.lock # NoInvocation
            code == v.replies[1].code
        IN /\ a => code = "REALM_ERROR_FAILED"
           /\ (~a /\ b) => code = "G_DBUS_ERROR_NOT_SUPPORTED" /\ v.exit = "capability"
           /\ (~a /\ ~b /\ c) => code = "G_DBUS_ERROR_INVALID_ARGS"
           /\ (~a /\ ~b /\ ~c /\ d) => code = "G_DBUS_ERROR_NOT_SUPPORTED" /\ v.exit = "support"
           /\ (~a /\ ~b /\ ~c /\ ~d /\ e) => code = "REALM_ERROR_BUSY"
           /\ (~a /\ ~b /\ ~c /\ ~d /\ ~e) => v.acquired = 1

C7_Witness ==
    /\ call.what = "Join"
    /\ HostNameNotSet(call.hostname)
    /\ ~call.self.join_async
    /\ call.credentials.kind = "bogus"
    /\ call.lock # NoInvocation
    /\ invocations[call.lock].pc = "flushing"
    /\ invocations[call.id].replies[1].code = "REALM_ERROR_FAILED"

\* C8: a call rejected on a precondition is answered inside the handler with
\* one reply, without acquiring the lock or calling a back-end entry point, and
\* the lock is the same before and after.
C8_PreconditionFailureIsPure ==
    [][\A i \in Ids :
         (HandlerRuns(i) /\ invocations'[i].exit \in PreconditionExits) =>
            /\ invocations'[i].pc = "done"
            /\ Len(invocations'[i].replies) = 1
            /\ invocations'[i].acquired = 0
            /\ invocations'[i].async_calls = 0
            /\ current_invocation' = current_invocation]_vars

C8_Witness ==
    \E i, j \in Ids :
        /\ invocations[j].exit = "policy_unknown"
        /\ invocations[j].acquired = 0
        /\ invocations[i].exit = "computer_ou"
        /\ current_invocation = NoInvocation

\* C9: every invocation gets exactly one reply: never two, and never none once
\* nothing more can run for it.
C9_ExactlyOneReply ==
    \A i \in Ids :
        /\ Len(invocations[i].replies) <= 1
        /\ (invocations[i].pc = "done" /\ ~crashed) => Len(invocations[i].replies) = 1

\* C10: when the back-end call of a Join, Leave or Deconfigure completes after
\* the invocation's cancellation token fired, the reply is Cancelled and the
\* back-end's finish entry point (its result) is not consulted.
C10_CancelledWins ==
    [][\A i \in Ids :
         (/\ invocations[i].pc = "dispatched"
          /\ invocations[i].method \in {"Join", "Leave", "Deconfigure"}
          /\ invocations[i].cancelled
          /\ invocations'[i].pc # "dispatched") =>
            /\ invocations'[i].replies = <<CancelledReply>>
            /\ invocations'[i].finish_calls = 0]_vars

C10_Witness ==
    \E i \in Ids :
        /\ invocations[i].method = "Join"
        /\ invocations[i].cancelled
        /\ invocations[i].pc = "done"
        /\ invocations[i].replies = <<CancelledReply>>
        /\ invocations[i].finish_calls = 0

====
